---- MODULE Spec2Model ----
(***************************************************************************)
(* Model of server/podcast_generator.py.                                    *)
(*                                                                         *)
(* Spec is the run of generate_podcast_audio_api: _prepare_podcast_prompts *)
(* (speaker resolution), script generation, adapter initialisation,        *)
(* generate_audio_for_item (per-utterance synthesis with retry),           *)
(* _generate_all_audio_files (thread pool, as_completed loop, trim in the  *)
(* calling thread, cancellation), _create_ffmpeg_file_list and             *)
(* merge_audio_files.                                                      *)
(* SpecResolver applies generate_speaker_id_text to rosters and catalogs.  *)
(* SpecScript is one call of _generate_podcast_script: requests, the       *)
(* extraction scan over the response text, the quality gate, the retries.  *)
(* SpecTrim is one call of trim_audio_silence: the silencedetect pass, the *)
(* trim window, the verbatim copy or the windowed re-encode.               *)
(* SpecFair is Spec with the scheduling of the threads as fairness.        *)
(* SpecDialog follows one dialog from the quality gate through the         *)
(* sanitization of generate_audio_for_item to the backend call.            *)
(* SpecAdapter is the adapter setup of the API entry points: the provider  *)
(* list of _load_configuration_path, _initialize_tts_adapter, and the      *)
(* adapter lookup of generate_audio_for_item for each roster entry.        *)
(*                                                                         *)
(* Utterances are numbered 1..N here (Python index k-1).  A clip is        *)
(* identified by the number of the utterance whose text was synthesized.   *)
(***************************************************************************)
EXTENDS Integers, Sequences, FiniteSets, TLC

\* ---------------------------------------------------------------- bounds
MaxN == 2
MaxThreads == 2
MaxCfgRetries == 1
MaxSpeakers == 2
MaxVoices == 2
MaxNoise == 1
MaxD == 2
MaxIntervals == 2
MaxDialog == 3

\* ------------------------------------------------------ program constants
\* tts_max_retries default (config_data.get("tts_max_retries", 3))
DefaultMaxRetries == 3

\* max_retries of _generate_podcast_script (574)
ScriptMaxRetries == 3

\* Times of trim_audio_silence, in hundredths of a second: the threshold
\* 0.01 of line 334, padding_ms = 0.2 (322), min_silence_duration = 0.5
\* (253).
Epsilon == 1
Pad == 20
MinSilence == 50

\* Values of tts_max_retries the configuration may carry.
RetryConfigs == (0..MaxCfgRetries) \cup {DefaultMaxRetries}

\* What one utterance resolves to in the prelude of generate_audio_for_item:
\* "ok" (voice code and adapter found), "novoice" (ValueError, line 676),
\* "noadapter" (KeyError at tts_adapter[voice_tts_provider], line 679).
ItemKinds == {"ok", "novoice", "noadapter"}

\* What one call of selected_adapter.generate_audio can do: return a path
\* ("ok"), return a falsy path, None or "" ("empty"), raise RuntimeError
\* ("transient"), raise any other exception ("unexpected").
Outcomes == {"ok", "empty", "transient", "unexpected"}

\* What the external tool can do in merge_audio_files.
MergeOutcomes == {"noffmpeg", "concatfail", "mp3fail", "ok"}

VARIABLES
  enable_trim,      \* argument of trim_audio_silence
  clip_duration,    \* duration of the input clip
  detected,         \* the intervals the silencedetect pass reports
  silence_starts,   \* parsed silence_start instants, in order
  silence_ends,     \* parsed silence_end instants, in order
  current_audio_duration, \* what get_audio_duration(input) gave
  start_trim_val,   \* trim-in
  end_trim_val,     \* trim-out
  tpos,             \* position in trim_audio_silence
  copyWhy,          \* why the verbatim copy is made, "none" otherwise
  output,           \* the output clip: "none", "partial", "copy", "trimmed"
  trimError,        \* what trim_audio_silence raised, "none" otherwise
  trimmed_duration, \* "unset", or what get_audio_duration(output) gave
  podscript_json_str, \* raw text of the current response, as symbols
  idx,              \* position of the extraction scan (from 0, as in Python)
  podcast_script,   \* the object the scan accepted, or None
  valid_json_str,   \* the text the accepted object was decoded from
  attempt,          \* attempt counter of _generate_podcast_script
  requests,         \* responses requested from the upstream generator
  spos,             \* position in _generate_podcast_script
  scanned,          \* decodes of the current scan, in order
  noise,            \* <<prefix, suffix>> around the body of the response
  body,             \* the body of the current response
  lastFailure,      \* why the attempt just ended failed, "none" otherwise
  lastDelay,        \* seconds slept after that failure
  errRaw,           \* the error raised carries the raw response
  pod_users,        \* the roster: config_data["podUsers"]
  voices,           \* the catalog: config_data["voices"]
  speaker_id_info,  \* what generate_speaker_id_text gave, NotCalled before
  transcripts,      \* podcast_script["podcast_transcripts"]: Seq(ItemKinds)
  threads,          \* max_workers of the pool
  max_retries,      \* attempt limit handed to every task
  pc,               \* position of the calling thread in the pipeline
  nsub,             \* number of futures submitted so far
  cursor,           \* next future visited by the cancel loop
  fut,              \* state of each future
  tpc,              \* position of each running task
  hist,             \* outcomes of the backend calls of each task, in order
  waits,            \* seconds of each time.sleep of each task, in order
  res,              \* what each finished future holds
  collected,        \* futures already yielded by as_completed
  audio_files_dict, \* index -> trimmed clip
  exception_caught, \* 0, or the index whose failure broke the loop
  audio_files,      \* list returned by _generate_all_audio_files
  raw,              \* untrimmed clips on disk
  trimmed,          \* trimmed clips on disk
  manifest,         \* lines of the file list on disk (clip per line)
  manifestOnDisk,   \* the file list exists
  wav,              \* the intermediate WAV exists
  mp3,              \* "none", "partial", "complete"
  mp3From,          \* manifest lines the mp3 was built from
  error,            \* why the run failed, "none" otherwise
  mergeResult,      \* how merge_audio_files ended, "notrun" before
  firstFail,        \* 0, or the first task whose backend failed fatally
  afterFail,        \* backend calls begun after that failure
  pendingAtObs,     \* futures still pending when the loop saw a failure
  rmFailed,         \* some os.remove of this run raised OSError
  rmRaised,         \* the os.remove calls of the merge cleanup that raised
  item_dialog,      \* the dialog of one utterance, as character classes
  sent_text,        \* the text handed to the backend for it
  dpos,             \* where the utterance is between gate and backend
  user_owners,      \* the owner field of each podUsers entry
  tts_provider,     \* config_data["tts_provider"]
  adapters_map,     \* keys of the mapping _initialize_tts_adapter returns
  selected,         \* per entry: tts_adapter[owner] found an adapter
  apos              \* where the adapter setup of the entry point is

rosterVars == <<pod_users, voices>>

scriptVars == <<podscript_json_str, idx, podcast_script, valid_json_str,
                attempt, requests, spos, scanned, noise, body, lastFailure,
                lastDelay, errRaw>>

trimVars == <<enable_trim, clip_duration, detected, silence_starts,
              silence_ends, current_audio_duration, start_trim_val,
              end_trim_val, tpos, copyWhy, output, trimError,
              trimmed_duration>>

dialogVars == <<item_dialog, sent_text, dpos>>

adapterVars == <<user_owners, tts_provider, adapters_map, selected, apos>>

otherVars == <<rosterVars, scriptVars, trimVars, dialogVars, adapterVars>>

pipeVars == <<transcripts, threads, max_retries, pc, nsub, cursor, fut, tpc,
              hist, waits, res, collected, audio_files_dict, exception_caught,
              audio_files, raw, trimmed, manifest, manifestOnDisk, wav, mp3,
              mp3From, error, mergeResult, firstFail, afterFail,
              pendingAtObs, rmFailed,
              rmRaised>>

vars == <<speaker_id_info, otherVars, pipeVars>>

nonTrimVars == <<speaker_id_info, rosterVars, scriptVars, pipeVars,
                 dialogVars, adapterVars>>

nonScriptVars == <<speaker_id_info, rosterVars, pipeVars, trimVars,
                   dialogVars, adapterVars>>

nonDialogVars == <<speaker_id_info, rosterVars, scriptVars, pipeVars,
                   trimVars, adapterVars>>

nonAdapterVars == <<speaker_id_info, rosterVars, scriptVars, pipeVars,
                    trimVars, dialogVars>>

\* podcast_script = None (583)
None == [t |-> "none", v |-> <<>>]

\* _generate_podcast_script is not running.
ScriptOff ==
  /\ podscript_json_str = <<>>
  /\ idx = 0
  /\ podcast_script = None
  /\ valid_json_str = <<>>
  /\ attempt = 0
  /\ requests = 0
  /\ spos = "off"
  /\ scanned = <<>>
  /\ noise = <<<<>>, <<>>>>
  /\ body = <<>>
  /\ lastFailure = "none"
  /\ lastDelay = 0
  /\ errRaw = FALSE

\* trim_audio_silence is not running.
TrimOff ==
  /\ enable_trim = FALSE
  /\ clip_duration = 0
  /\ detected = <<>>
  /\ silence_starts = <<>>
  /\ silence_ends = <<>>
  /\ current_audio_duration = <<>>
  /\ start_trim_val = 0
  /\ end_trim_val = 0
  /\ tpos = "off"
  /\ copyWhy = "none"
  /\ output = "none"
  /\ trimError = "none"
  /\ trimmed_duration = "unset"

\* No utterance is followed from the gate to the backend.
DialogOff ==
  /\ item_dialog = <<>>
  /\ sent_text = <<>>
  /\ dpos = "off"

\* The adapter setup is not studied.
AdapterOff ==
  /\ user_owners = <<>>
  /\ tts_provider = <<>>
  /\ adapters_map = {}
  /\ selected = <<>>
  /\ apos = "off"

N == Len(transcripts)
Idx == 1..N

Running == {i \in Idx : fut[i] = "running"}

\* Number of backend calls task i has begun.
Calls(i) == Len(hist[i]) + (IF tpc[i] = "incall" THEN 1 ELSE 0)

\* ----------------------------------------------- generate_speaker_id_text
\* A missing field and an empty one are both falsy: "" stands for either.
VoiceCodes == {"a", "b"}
Voice(code, usedname, alias, name) ==
  [code |-> code, usedname |-> usedname, alias |-> alias, name |-> name]
PodUser(code, role) == [code |-> code, role |-> role]

\* Catalog entries: any code (or none), any subset of the three name fields.
VoiceEntries ==
  {Voice(c, u, a, n) : c \in VoiceCodes \cup {""}, u \in {"", "U"},
                       a \in {"", "A"}, n \in {"", "N"}}
RosterEntries == {PodUser(c, r) : c \in VoiceCodes, r \in {"", "host"}}

SeqsUpTo(S, n) == UNION {[1..m -> S] : m \in 0..n}

\* voice_map.get(pod_user_code) when no voice carries the code.
NoVoice == Voice("", "", "", "")

\* Faulty variant of VoiceMapGet: an unknown code falls back to the last
\* voice of the catalog.
VoiceMapGetOrLast(voices_list, code) ==
  LET hits == {k \in 1..Len(voices_list) :
                 voices_list[k].code # "" /\ voices_list[k].code = code}
  IN IF hits = {}
       THEN IF voices_list = <<>> THEN NoVoice
            ELSE voices_list[Len(voices_list)]
       ELSE voices_list[CHOOSE k \in hits : \A j \in hits : j <= k]

\* voice_map = {voice.get("code"): voice for voice in voices_list if
\* voice.get("code")} (105) and voice_map.get(pod_user_code) (113): voices
\* without a code are left out and a later voice replaces an earlier one
\* with the same code.
VoiceMapGet(voices_list, code) ==
  LET hits == {k \in 1..Len(voices_list) :
                 voices_list[k].code # "" /\ voices_list[k].code = code}
  IN IF hits = {} THEN NoVoice
     ELSE voices_list[CHOOSE k \in hits : \A j \in hits : j <= k]

\* Faulty variant of FoundName: the alias is preferred to the usedname.
FoundNameAliasFirst(voice) ==
  IF voice.alias # "" THEN voice.alias
  ELSE IF voice.usedname # "" THEN voice.usedname
  ELSE voice.name

\* voice.get("usedname") or voice.get("alias") or voice.get("name") (115);
\* "" when there is no voice or none of the three is set.
FoundName(voice) ==
  IF voice.usedname # "" THEN voice.usedname
  ELSE IF voice.alias # "" THEN voice.alias
  ELSE voice.name

\* One clause of the briefing (118-121): the speaker_id, the name and, when
\* the roster entry has one, the role.
Clause(speaker_id, found_name, role) ==
  [speaker_id |-> speaker_id, name |-> found_name, role |-> role]

\* The separator "\u3002" that ends every clause of the briefing.
FullStop == [stop |-> TRUE]

\* "\u3002".join(speaker_info) + "\u3002" (125), as the sequence of its
\* clauses and separators.
RECURSIVE JoinClauses(_)
JoinClauses(speaker_info) ==
  IF speaker_info = <<>> THEN <<FullStop>>
  ELSE IF Len(speaker_info) = 1 THEN <<speaker_info[1], FullStop>>
  ELSE <<speaker_info[1], FullStop>> \o JoinClauses(Tail(speaker_info))

NotCalled == [ok |-> FALSE, text |-> <<>>, code |-> "", speaker_id |-> -1]

\* The loop of lines 108-123 from roster position k on (speaker_id k-1):
\* it raises ValueError at the first entry without a name.
RECURSIVE SpeakerLoop(_, _, _, _)
SpeakerLoop(users, voices_list, k, speaker_info) ==
  IF k > Len(users)
    THEN [ok |-> TRUE, text |-> JoinClauses(speaker_info),
          code |-> "", speaker_id |-> -1]
    ELSE LET found_name == FoundName(VoiceMapGet(voices_list, users[k].code))
         IN IF found_name # ""
              THEN SpeakerLoop(users, voices_list, k + 1,
                     Append(speaker_info,
                            Clause(k - 1, found_name, users[k].role)))
              ELSE [ok |-> FALSE, text |-> <<>>,
                    code |-> users[k].code, speaker_id |-> k - 1]

generate_speaker_id_text(users, voices_list) ==
  SpeakerLoop(users, voices_list, 1, <<>>)

\* ------------------------------------------------------------------ Init
\* The catalog of the runs of Spec: "a" has names, "b" has none, "c" is
\* not in it.
PipelineVoices == <<Voice("b", "", "", ""), Voice("a", "", "A", "N")>>

\* The rosters of the runs of Spec: one or two speakers using "a", "b", "c".
PipelineRosters ==
  LET users == {PodUser(c, "") : c \in {"a", "b", "c"}}
  IN {<<u>> : u \in users} \cup {<<u, v>> : u \in users, v \in users}

\* No os.remove of the merge cleanup has raised.
NoneRaised == [clips |-> {}, list |-> FALSE, wav |-> FALSE]

\* The pipeline variables before anything ran.
PipelineFresh ==
  /\ speaker_id_info = NotCalled
  /\ nsub = 0
  /\ cursor = 0
  /\ fut = [i \in 1..Len(transcripts) |-> "unsubmitted"]
  /\ tpc = [i \in 1..Len(transcripts) |-> "idle"]
  /\ hist = [i \in 1..Len(transcripts) |-> <<>>]
  /\ waits = [i \in 1..Len(transcripts) |-> <<>>]
  /\ res = [i \in 1..Len(transcripts) |-> "none"]
  /\ collected = {}
  /\ audio_files_dict = <<>>
  /\ exception_caught = 0
  /\ audio_files = <<>>
  /\ raw = {}
  /\ trimmed = {}
  /\ manifest = <<>>
  /\ manifestOnDisk = FALSE
  /\ wav = FALSE
  /\ mp3 = "none"
  /\ mp3From = <<>>
  /\ error = "none"
  /\ mergeResult = "notrun"
  /\ firstFail = 0
  /\ afterFail = 0
  /\ pendingAtObs = {}
  /\ rmFailed = FALSE
  /\ rmRaised = NoneRaised

\* No pipeline run: the state of the pipeline variables in the
\* specifications of the single functions.
PipelineOff ==
  /\ transcripts = <<>>
  /\ threads = 1
  /\ max_retries = 0
  /\ pc = "off"
  /\ PipelineFresh

\* The roster and the catalog when generate_speaker_id_text is not studied.
RosterOff ==
  /\ pod_users = <<>>
  /\ voices = <<>>

Init ==
  /\ pod_users \in PipelineRosters
  /\ voices = PipelineVoices
  /\ transcripts \in UNION {[1..n -> ItemKinds] : n \in 1..MaxN}
  /\ threads \in 1..MaxThreads
  /\ max_retries \in RetryConfigs
  /\ pc = "prepare"
  /\ PipelineFresh
  /\ ScriptOff
  /\ TrimOff
  /\ DialogOff
  /\ AdapterOff

\* ---------------------------------------- generate_podcast_audio_api, head
\* _prepare_podcast_prompts (953) calls generate_speaker_id_text (477); its
\* ValueError ends the run.
PreparePodcastPrompts ==
  /\ pc = "prepare"
  /\ speaker_id_info' = generate_speaker_id_text(pod_users, voices)
  /\ IF speaker_id_info'.ok
       THEN pc' = "script" /\ UNCHANGED error
       ELSE pc' = "failed" /\ error' = "speaker"
  /\ UNCHANGED otherVars
  /\ UNCHANGED <<waits, transcripts, threads, max_retries, nsub, cursor, fut, tpc,
                 hist, res, collected, audio_files_dict, exception_caught,
                 audio_files, raw, trimmed, manifest, manifestOnDisk, wav,
                 mp3, mp3From, mergeResult, firstFail, afterFail,
                 pendingAtObs, rmFailed,
                 rmRaised>>

\* _generate_overview_content and _generate_podcast_script (961-962) return
\* the script or raise once their attempts are used up.
GenerateScript ==
  /\ pc = "script"
  /\ \E accepted \in BOOLEAN :
       IF accepted
         THEN pc' = "adapter" /\ UNCHANGED error
         ELSE pc' = "failed" /\ error' = "script"
  /\ UNCHANGED <<speaker_id_info, otherVars>>
  /\ UNCHANGED <<waits, transcripts, threads, max_retries, nsub, cursor, fut, tpc,
                 hist, res, collected, audio_files_dict, exception_caught,
                 audio_files, raw, trimmed, manifest, manifestOnDisk, wav,
                 mp3, mp3From, mergeResult, firstFail, afterFail,
                 pendingAtObs, rmFailed,
                 rmRaised>>

\* _initialize_tts_adapter (964) returns the adapter map or raises
\* (unknown provider, missing providers configuration).
InitializeTtsAdapter ==
  /\ pc = "adapter"
  /\ \E built \in BOOLEAN :
       IF built
         THEN pc' = "submit" /\ UNCHANGED error
         ELSE pc' = "failed" /\ error' = "adapter"
  /\ UNCHANGED <<speaker_id_info, otherVars>>
  /\ UNCHANGED <<waits, transcripts, threads, max_retries, nsub, cursor, fut, tpc,
                 hist, res, collected, audio_files_dict, exception_caught,
                 audio_files, raw, trimmed, manifest, manifestOnDisk, wav,
                 mp3, mp3From, mergeResult, firstFail, afterFail,
                 pendingAtObs, rmFailed,
                 rmRaised>>


\* ------------------------------------------------ generate_audio_for_item
\* Faulty variant of IsRetryable: a bare `except Exception` that retries
\* every failure.
IsRetryableAnyError(o) == o \in {"transient", "unexpected"}

\* except RuntimeError (line 695): the only failure the loop retries.
IsRetryable(o) == o = "transient"

\* Faulty variant of ShouldRetry: the guard off by one, attempt < max_retries.
ShouldRetryOffByOne(att, limit) == att < limit

\* if attempt < max_retries - 1 (line 697), the attempt att counted from 0.
ShouldRetry(att, limit) == att < limit - 1

\* Faulty variant of WaitTime: the same second before every retry.
WaitTimeFixed(att) == 1

\* wait_time = 2 ** attempt (698), the attempt att counted from 0.
WaitTime(att) == 2 ^ att

\* A backend call begun once some task has already failed fatally is counted.
BeginCall == afterFail' = IF firstFail # 0 THEN afterFail + 1 ELSE afterFail

\* Faulty variant of Resolves: a provider without an adapter falls back to
\* a default adapter.
ResolvesWithDefaultAdapter(kind) == kind # "novoice"

\* The prelude of generate_audio_for_item (659-679) finds the voice code of
\* the speaker and the adapter of its provider.
Resolves(kind) == kind = "ok"

\* Faulty variant of WorkerFree: the pool runs one task more than it has
\* workers.
WorkerFreeOneMore(running, workers) == Cardinality(running) <= workers

\* ThreadPoolExecutor(max_workers=threads) (729): a task starts only on a
\* worker that runs no task.
WorkerFree(running, workers) == Cardinality(running) < workers

\* A worker takes the head of the FIFO work queue (futures cancelled in the
\* meantime are skipped) and runs generate_audio_for_item up to its first
\* backend call: lines 656-682, then the first iteration of the loop at 684.
StartTask(i) ==
  /\ fut[i] = "pending"
  /\ \A j \in 1..(i - 1) : fut[j] # "pending"
  /\ WorkerFree(Running, threads)
  /\ IF ~Resolves(transcripts[i])
       THEN \* ValueError (676) or KeyError (679): the future holds the exception
            /\ fut' = [fut EXCEPT ![i] = "finished"]
            /\ res' = [res EXCEPT ![i] = "exc"]
            /\ UNCHANGED <<tpc, afterFail>>
       ELSE IF max_retries <= 0
         THEN \* range(max_retries) is empty: the function falls off its end
              /\ fut' = [fut EXCEPT ![i] = "finished"]
              /\ res' = [res EXCEPT ![i] = "falsy"]
              /\ UNCHANGED <<tpc, afterFail>>
         ELSE /\ fut' = [fut EXCEPT ![i] = "running"]
              /\ tpc' = [tpc EXCEPT ![i] = "incall"]
              /\ BeginCall
              /\ UNCHANGED res
  /\ UNCHANGED <<speaker_id_info, otherVars>>
  /\ UNCHANGED <<waits, transcripts, threads, max_retries, pc, nsub, cursor, hist,
                 collected, audio_files_dict, exception_caught, audio_files,
                 raw, trimmed, manifest, manifestOnDisk, wav, mp3, mp3From,
                 error, mergeResult, firstFail, pendingAtObs,
                 rmFailed, rmRaised>>

\* selected_adapter.generate_audio returns or raises (lines 687-704).
BackendEnd(i, o) ==
  /\ fut[i] = "running"
  /\ tpc[i] = "incall"
  /\ hist' = [hist EXCEPT ![i] = Append(@, o)]
  /\ IF o \in {"ok", "empty"}
       THEN \* return temp_audio_file (694)
            /\ fut' = [fut EXCEPT ![i] = "finished"]
            /\ tpc' = [tpc EXCEPT ![i] = "idle"]
            /\ res' = [res EXCEPT ![i] = IF o = "ok" THEN "clip" ELSE "falsy"]
            /\ raw' = IF o = "ok" THEN raw \cup {i} ELSE raw
            /\ UNCHANGED <<firstFail, waits>>
       ELSE IF IsRetryable(o) /\ ShouldRetry(Len(hist[i]), max_retries)
         THEN \* time.sleep(wait_time) (700)
              /\ tpc' = [tpc EXCEPT ![i] = "sleep"]
              /\ waits' = [waits EXCEPT ![i] = Append(@, WaitTime(Len(hist[i])))]
              /\ UNCHANGED <<fut, res, raw, firstFail>>
         ELSE \* raise RuntimeError (702, 704)
              /\ fut' = [fut EXCEPT ![i] = "finished"]
              /\ tpc' = [tpc EXCEPT ![i] = "idle"]
              /\ res' = [res EXCEPT ![i] = "exc"]
              /\ firstFail' = IF firstFail = 0 THEN i ELSE firstFail
              /\ UNCHANGED <<raw, waits>>
  /\ UNCHANGED <<speaker_id_info, otherVars>>
  /\ UNCHANGED <<transcripts, threads, max_retries, pc, nsub, cursor,
                 collected, audio_files_dict, exception_caught, audio_files,
                 trimmed, manifest, manifestOnDisk, wav, mp3, mp3From, error,
                 mergeResult, afterFail, pendingAtObs,
                 rmFailed, rmRaised>>

\* The backoff sleep ends and the next iteration calls the backend again.
BackoffDone(i) ==
  /\ fut[i] = "running"
  /\ tpc[i] = "sleep"
  /\ tpc' = [tpc EXCEPT ![i] = "incall"]
  /\ BeginCall
  /\ UNCHANGED <<speaker_id_info, otherVars>>
  /\ UNCHANGED <<waits, transcripts, threads, max_retries, pc, nsub, cursor, fut,
                 hist, res, collected, audio_files_dict, exception_caught,
                 audio_files, raw, trimmed, manifest, manifestOnDisk, wav,
                 mp3, mp3From, error, mergeResult, firstFail, pendingAtObs,
                 rmFailed, rmRaised>>

\* ---------------------------------------------- _generate_all_audio_files
\* executor.submit(...) for the next item of enumerate(transcripts) (730-733).
Submit ==
  /\ pc = "submit"
  /\ nsub < N
  /\ nsub' = nsub + 1
  /\ fut' = [fut EXCEPT ![nsub + 1] = "pending"]
  /\ pc' = IF nsub + 1 = N THEN "loop" ELSE "submit"
  /\ UNCHANGED <<speaker_id_info, otherVars>>
  /\ UNCHANGED <<waits, transcripts, threads, max_retries, cursor, tpc, hist, res,
                 collected, audio_files_dict, exception_caught, audio_files,
                 raw, trimmed, manifest, manifestOnDisk, wav, mp3, mp3From,
                 error, mergeResult, firstFail, afterFail, pendingAtObs,
                 rmFailed, rmRaised>>

\* if original_audio_file: (740)
Truthy(r) == r = "clip"

\* Faulty variant of DictPut: the result is stored in the next free slot,
\* in completion order.
DictPutNextFree(d, k, v) ==
  [x \in (DOMAIN d) \cup {Cardinality(DOMAIN d) + 1} |->
     IF x = Cardinality(DOMAIN d) + 1 THEN v ELSE d[x]]

\* audio_files_dict[index] = trimmed_audio_file (745)
DictPut(d, k, v) == [x \in (DOMAIN d) \cup {k} |-> IF x = k THEN v ELSE d[x]]

\* Faulty variant of RawAfterFailedTrim: the untrimmed clip is removed
\* although the trim failed.
RawAfterFailedTrimRemoved(clips, i) == clips \ {i}

\* The untrimmed clips after trim_audio_silence raised for clip i: the
\* handler at 752 runs no os.remove.
RawAfterFailedTrim(clips, i) == clips

\* The loop saw an exception: exception_caught is set and the loop is left.
Break(i) ==
  /\ exception_caught' = i
  /\ pc' = "cancel"
  /\ cursor' = 1
  /\ pendingAtObs' = {j \in Idx : fut[j] = "pending"}

\* One iteration of `for future in as_completed(future_to_index)` (736-754),
\* run by the calling thread: future.result(), trim_audio_silence, the write
\* into audio_files_dict, os.remove of the untrimmed clip.
CollectResult(i) ==
  /\ pc = "loop"
  /\ fut[i] = "finished"
  /\ i \notin collected
  /\ collected' = collected \cup {i}
  /\ IF res[i] = "exc"
       THEN /\ Break(i)
            /\ UNCHANGED <<audio_files_dict, raw, trimmed, rmFailed,
                           rmRaised>>
       ELSE IF ~Truthy(res[i])
         THEN UNCHANGED <<audio_files_dict, raw, trimmed, exception_caught,
                          pc, cursor, pendingAtObs, rmFailed,
                          rmRaised>>
         ELSE \/ \* trim_audio_silence returns; os.remove may raise OSError
                 /\ trimmed' = trimmed \cup {i}
                 /\ audio_files_dict' = DictPut(audio_files_dict, i, i)
                 /\ \E removed \in BOOLEAN :
                      /\ raw' = IF removed THEN raw \ {i} ELSE raw
                      /\ rmFailed' = (rmFailed \/ ~removed)
                 /\ UNCHANGED <<exception_caught, pc, cursor, pendingAtObs,
                                rmRaised>>
              \/ \* trim_audio_silence raises; the tool may leave its output
                 /\ \E left \in BOOLEAN :
                      trimmed' = IF left THEN trimmed \cup {i} ELSE trimmed
                 /\ raw' = RawAfterFailedTrim(raw, i)
                 /\ Break(i)
                 /\ UNCHANGED <<audio_files_dict, rmFailed,
                                rmRaised>>
  /\ UNCHANGED <<speaker_id_info, otherVars>>
  /\ UNCHANGED <<waits, transcripts, threads, max_retries, nsub, fut, tpc, hist, res,
                 audio_files, manifest, manifestOnDisk, wav, mp3, mp3From,
                 error, mergeResult, firstFail, afterFail>>

\* One iteration of the cancel loop (759-761): f.cancel() succeeds on a
\* pending future only.
CancelStep ==
  /\ pc = "cancel"
  /\ cursor <= N
  /\ fut' = [fut EXCEPT ![cursor] = IF @ = "pending" THEN "cancelled" ELSE @]
  /\ cursor' = cursor + 1
  /\ UNCHANGED <<speaker_id_info, otherVars>>
  /\ UNCHANGED <<waits, transcripts, threads, max_retries, pc, nsub, tpc, hist, res,
                 collected, audio_files_dict, exception_caught, audio_files,
                 raw, trimmed, manifest, manifestOnDisk, wav, mp3, mp3From,
                 error, mergeResult, firstFail, afterFail, pendingAtObs,
                 rmFailed, rmRaised>>

\* Faulty variant of ShutdownDone: the with block is left without waiting
\* for the workers.
ShutdownNoWait(running) == TRUE

\* Leaving `with ThreadPoolExecutor(...)` (729) runs shutdown(wait=True),
\* which returns once no worker is running a task.
ShutdownDone(running) == running = {}

\* raise exception_caught (762) leaves the with block.
RaiseCaught ==
  /\ pc = "cancel"
  /\ cursor > N
  /\ ShutdownDone(Running)
  /\ pc' = "failed"
  /\ error' = "synthesis"
  /\ UNCHANGED <<speaker_id_info, otherVars>>
  /\ UNCHANGED <<waits, transcripts, threads, max_retries, nsub, cursor, fut, tpc,
                 hist, res, collected, audio_files_dict, exception_caught,
                 audio_files, raw, trimmed, manifest, manifestOnDisk, wav,
                 mp3, mp3From, mergeResult, firstFail, afterFail,
                 pendingAtObs,
                 rmFailed, rmRaised>>


\* sorted(audio_files_dict.keys()) (764): the keys in ascending order.
RECURSIVE SortedKeys(_)
SortedKeys(S) ==
  IF S = {} THEN <<>>
  ELSE LET m == CHOOSE x \in S : \A y \in S : x <= y
       IN <<m>> \o SortedKeys(S \ {m})

\* [audio_files_dict[i] for i in sorted(audio_files_dict.keys())] (764)
ListOf(d) ==
  LET keys == SortedKeys(DOMAIN d)
  IN [k \in 1..Len(keys) |-> d[keys[k]]]

\* as_completed is exhausted, the with block is left with every future done,
\* and the list is built and returned (764-767).
ReturnAudioFiles ==
  /\ pc = "loop"
  /\ collected = Idx
  /\ audio_files' = ListOf(audio_files_dict)
  /\ pc' = "filelist"
  /\ UNCHANGED <<speaker_id_info, otherVars>>
  /\ UNCHANGED <<waits, transcripts, threads, max_retries, nsub, cursor, fut, tpc,
                 hist, res, collected, audio_files_dict, exception_caught,
                 raw, trimmed, manifest, manifestOnDisk, wav, mp3, mp3From,
                 error, mergeResult, firstFail, afterFail, pendingAtObs,
                 rmFailed, rmRaised>>

\* ----------------------------------------------- _create_ffmpeg_file_list
\* Faulty variant of CountMatches: only the emptiness guard, no length check.
CountMatchesNonEmptyOnly(files, expected) == files # <<>>

\* The two guards of lines 771-775: the list is non-empty and as long as
\* the script.
CountMatches(files, expected) == files # <<>> /\ Len(files) = expected

\* Called with expected_count = len(podcast_transcripts) (965).
CreateFfmpegFileList ==
  /\ pc = "filelist"
  /\ IF CountMatches(audio_files, N)
       THEN /\ manifest' = audio_files
            /\ manifestOnDisk' = TRUE
            /\ pc' = "merge"
            /\ UNCHANGED error
       ELSE /\ pc' = "failed"
            /\ error' = IF audio_files = <<>> THEN "nofiles" ELSE "count"
            /\ UNCHANGED <<manifest, manifestOnDisk>>
  /\ UNCHANGED <<speaker_id_info, otherVars>>
  /\ UNCHANGED <<waits, transcripts, threads, max_retries, nsub, cursor, fut, tpc,
                 hist, res, collected, audio_files_dict, exception_caught,
                 audio_files, raw, trimmed, wav, mp3, mp3From, mergeResult,
                 firstFail, afterFail, pendingAtObs,
                 rmFailed, rmRaised>>

\* ------------------------------------------------------ merge_audio_files
\* The try/finally of lines 147-218 does not enclose the availability probe
\* of lines 141-144.
CleanupRuns(o) == o # "noffmpeg"

\* Faulty variant of Named: the first line of the file list is skipped.
NamedButFirst(m) == {m[k] : k \in 2..Len(m)}

\* Clips named by the lines of the file list.
Named(m) == {m[k] : k \in 1..Len(m)}

\* Faulty variant of LeftByCleanup: the first os.remove that raises ends
\* the loop over the lines of the file list.
LeftByCleanupAborted(named, keep) ==
  {c \in named : \E k \in keep : k <= c}

\* Clips still on disk after the loop of lines 186-199 over the clips the
\* file list names: each os.remove has its own handler (194-199), so only
\* the clips whose os.remove raised stay.
LeftByCleanup(named, keep) == named \cap keep

\* One call of merge_audio_files(file_list_path) (127-218).  o is what the
\* external tool does; a failing tool run may leave its output file behind.
\* keepClips, keepList, keepWav are the os.remove calls that raise OSError.
MergeAudioFiles ==
  /\ pc = "merge"
  /\ \E o \in MergeOutcomes, madeWav \in BOOLEAN, madeMp3 \in BOOLEAN,
        keepClips \in SUBSET (Named(manifest) \cap trimmed),
        keepList \in BOOLEAN, keepWav \in BOOLEAN :
       /\ (o = "noffmpeg" => ~madeWav /\ ~madeMp3)
       /\ (o = "concatfail" => ~madeMp3)
       /\ (o = "mp3fail" => madeWav)
       /\ (o = "ok" => madeWav /\ madeMp3)
       /\ (keepWav => madeWav)
       /\ mergeResult' = o
       /\ mp3' = IF o = "ok" THEN "complete"
                 ELSE IF madeMp3 THEN "partial" ELSE "none"
       /\ mp3From' = IF madeMp3 THEN manifest ELSE <<>>
       /\ IF CleanupRuns(o)
            THEN /\ trimmed' =
                      (trimmed \ Named(manifest))
                        \cup LeftByCleanup(Named(manifest) \cap trimmed,
                                           keepClips)
                 /\ manifestOnDisk' = keepList
                 /\ wav' = keepWav
                 /\ rmFailed' =
                      (rmFailed \/ keepClips # {} \/ keepList \/ keepWav)
                 /\ rmRaised' = [clips |-> keepClips, list |-> keepList,
                                 wav |-> keepWav]
            ELSE /\ keepClips = {} /\ ~keepList /\ ~keepWav
                 /\ UNCHANGED <<trimmed, manifestOnDisk, wav, rmFailed,
                                rmRaised>>
       /\ pc' = IF o = "ok" THEN "done" ELSE "failed"
       /\ error' = IF o = "ok" THEN "none"
                   ELSE IF o = "noffmpeg" THEN "ffmpeg_missing"
                   ELSE "ffmpeg_failed"
  /\ UNCHANGED <<speaker_id_info, otherVars>>
  /\ UNCHANGED <<waits, transcripts, threads, max_retries, nsub, cursor, fut, tpc,
                 hist, res, collected, audio_files_dict, exception_caught,
                 audio_files, raw, manifest, firstFail, afterFail,
                 pendingAtObs>>

\* ------------------------------------------------------------------ Next
Next ==
  \/ PreparePodcastPrompts
  \/ GenerateScript
  \/ InitializeTtsAdapter
  \/ Submit
  \/ \E i \in Idx : StartTask(i)
  \/ \E i \in Idx, o \in Outcomes : BackendEnd(i, o)
  \/ \E i \in Idx : BackoffDone(i)
  \/ \E i \in Idx : CollectResult(i)
  \/ CancelStep
  \/ RaiseCaught
  \/ ReturnAudioFiles
  \/ CreateFfmpegFileList
  \/ MergeAudioFiles

Spec == Init /\ [][Next]_vars

\* Scheduling: the calling thread goes on with its next statement, an idle
\* worker takes the task at the head of the queue, every backend call ends
\* and every backoff sleep ends.
SpecFair ==
  /\ Spec
  /\ WF_vars(Submit)
  /\ \A i \in 1..MaxN :
       /\ WF_vars(i \in Idx /\ StartTask(i))
       /\ WF_vars(i \in Idx /\ \E o \in Outcomes : BackendEnd(i, o))
       /\ WF_vars(i \in Idx /\ BackoffDone(i))
  /\ WF_vars(\E i \in Idx : CollectResult(i))
  /\ WF_vars(CancelStep)
  /\ WF_vars(RaiseCaught)
  /\ WF_vars(ReturnAudioFiles)

\* --------------------------------------------------------- SpecResolver
\* generate_speaker_id_text applied to every roster of at most MaxSpeakers
\* entries and every catalog of at most MaxVoices voices.
InitResolver ==
  /\ pod_users \in SeqsUpTo(RosterEntries, MaxSpeakers)
  /\ voices \in SeqsUpTo(VoiceEntries, MaxVoices)
  /\ PipelineOff
  /\ ScriptOff
  /\ TrimOff
  /\ DialogOff
  /\ AdapterOff

CallGenerateSpeakerIdText ==
  /\ speaker_id_info = NotCalled
  /\ speaker_id_info' = generate_speaker_id_text(pod_users, voices)
  /\ UNCHANGED <<otherVars, pipeVars>>

NextResolver == CallGenerateSpeakerIdText

SpecResolver == InitResolver /\ [][NextResolver]_vars

\* ------------------------------------------ json.JSONDecoder.raw_decode
\* A text is a sequence of symbols.  "Q" is the double quote, "w" a blank,
\* "1" a digit, "x" a letter; "k", "s", "d" are the words
\* podcast_transcripts, speaker_id, dialog and "n" is the literal null.
\* Positions count from 0 as in Python: At(s, i) is s[i].
At(s, i) == s[i + 1]

\* s[i:j]
Slice(s, i, j) == SubSeq(s, i + 1, j)

\* Decoded values: [t |-> kind, v |-> content].  An object is the sequence
\* of its <<key, value>> pairs in text order.
JNull == [t |-> "null", v |-> <<>>]
JNum(digits) == [t |-> "num", v |-> digits]
JStr(chars) == [t |-> "str", v |-> chars]
JArr(items) == [t |-> "arr", v |-> items]
JObj(pairs) == [t |-> "obj", v |-> pairs]

\* JSONDecodeError
DecodeError == [ok |-> FALSE, end |-> 0, val |-> JNull]
Decoded(val, end) == [ok |-> TRUE, end |-> end, val |-> val]

\* The position of the first non-blank symbol at or after i.
RECURSIVE SkipWs(_, _)
SkipWs(s, i) ==
  IF i < Len(s) /\ At(s, i) = "w" THEN SkipWs(s, i + 1) ELSE i

\* A string whose opening quote ends just before i: it runs to the next
\* quote.
ScanString(s, i) ==
  LET quotes == {j \in i..(Len(s) - 1) : At(s, j) = "Q"}
  IN IF quotes = {} THEN DecodeError
     ELSE LET j == CHOOSE q \in quotes : \A r \in quotes : q <= r
          IN Decoded(JStr(Slice(s, i, j)), j + 1)

\* A number starting at i: the longest run of digits.
RECURSIVE DigitsEnd(_, _)
DigitsEnd(s, i) ==
  IF i < Len(s) /\ At(s, i) = "1" THEN DigitsEnd(s, i + 1) ELSE i

RECURSIVE ScanOnce(_, _)
RECURSIVE ObjectMembers(_, _, _)
RECURSIVE ArrayElements(_, _, _)

\* JSONObject after the opening quote of a key at i - 1; pairs are the
\* members decoded so far.
ObjectMembers(s, i, pairs) ==
  LET key == ScanString(s, i)
      colon == SkipWs(s, key.end)
      value == ScanOnce(s, SkipWs(s, colon + 1))
      next == SkipWs(s, value.end)
      more == Append(pairs, <<key.val.v, value.val>>)
      quote == SkipWs(s, next + 1)
  IN IF ~key.ok THEN DecodeError
     ELSE IF colon >= Len(s) \/ At(s, colon) # ":" THEN DecodeError
     ELSE IF ~value.ok THEN DecodeError
     ELSE IF next >= Len(s) THEN DecodeError
     ELSE IF At(s, next) = "}" THEN Decoded(JObj(more), next + 1)
     ELSE IF At(s, next) # "," THEN DecodeError
     ELSE IF quote >= Len(s) \/ At(s, quote) # "Q" THEN DecodeError
     ELSE ObjectMembers(s, quote + 1, more)

\* JSONArray from the element that starts at i on.
ArrayElements(s, i, items) ==
  LET value == ScanOnce(s, i)
      next == SkipWs(s, value.end)
      more == Append(items, value.val)
  IN IF ~value.ok THEN DecodeError
     ELSE IF next >= Len(s) THEN DecodeError
     ELSE IF At(s, next) = "]" THEN Decoded(JArr(more), next + 1)
     ELSE IF At(s, next) # "," THEN DecodeError
     ELSE ArrayElements(s, SkipWs(s, next + 1), more)

\* scan_once(s, i): the value that starts exactly at i; blanks are not
\* skipped before it.
ScanOnce(s, i) ==
  IF i >= Len(s) THEN DecodeError
  ELSE CASE At(s, i) = "Q" -> ScanString(s, i + 1)
         [] At(s, i) = "{" ->
              LET first == SkipWs(s, i + 1)
              IN IF first >= Len(s) THEN DecodeError
                 ELSE IF At(s, first) = "}" THEN Decoded(JObj(<<>>), first + 1)
                 ELSE IF At(s, first) # "Q" THEN DecodeError
                 ELSE ObjectMembers(s, first + 1, <<>>)
         [] At(s, i) = "[" ->
              LET first == SkipWs(s, i + 1)
              IN IF first < Len(s) /\ At(s, first) = "]"
                   THEN Decoded(JArr(<<>>), first + 1)
                   ELSE ArrayElements(s, first, <<>>)
         [] At(s, i) = "n" -> Decoded(JNull, i + 1)
         [] At(s, i) = "1" ->
              Decoded(JNum(DigitsEnd(s, i) - i), DigitsEnd(s, i))
         [] OTHER -> DecodeError

\* json.loads(s): blanks are skipped on both sides and nothing may follow.
Loads(s) ==
  LET r == ScanOnce(s, SkipWs(s, 0))
  IN IF r.ok /\ SkipWs(s, r.end) = Len(s) THEN r ELSE DecodeError

\* key in obj, obj[key] for a decoded object: the last member with the key
\* is the one the dict keeps.
HasKey(obj, key) == \E p \in 1..Len(obj.v) : obj.v[p][1] = key
Get(obj, key) ==
  LET ps == {p \in 1..Len(obj.v) : obj.v[p][1] = key}
  IN obj.v[CHOOSE p \in ps : \A q \in ps : q <= p][2]

\* bool(value)
IsTruthy(val) ==
  CASE val.t = "null" -> FALSE
    [] val.t = "none" -> FALSE
    [] val.t = "num" -> TRUE
    [] OTHER -> val.v # <<>>

\* isinstance(obj, dict) and "podcast_transcripts" in obj (592)
IsScriptObject(val) == val.t = "obj" /\ HasKey(val, <<"k">>)

\* Faulty variant of FindBrace: the search starts one symbol too far.
FindBraceTooFar(s, from) ==
  LET braces == {j \in (from + 1)..(Len(s) - 1) : At(s, j) = "{"}
  IN IF braces = {} THEN -1
     ELSE CHOOSE j \in braces : \A r \in braces : j <= r

\* podscript_json_str.find('{', idx) (599)
FindBrace(s, from) ==
  LET braces == {j \in from..(Len(s) - 1) : At(s, j) = "{"}
  IN IF braces = {} THEN -1
     ELSE CHOOSE j \in braces : \A r \in braces : j <= r

\* --------------------------------------- _is_content_quality_acceptable
\* str.strip(): blanks removed at both ends.
RECURSIVE Strip(_)
Strip(chars) ==
  IF chars = <<>> THEN <<>>
  ELSE IF Head(chars) = "w" THEN Strip(Tail(chars))
  ELSE IF chars[Len(chars)] = "w" THEN Strip(SubSeq(chars, 1, Len(chars) - 1))
  ELSE chars

\* Faulty variant of DialogAcceptable: the dialog is not stripped.
DialogAcceptableUnstripped(chars) == chars # <<>>

\* dialog = transcript.get("dialog", "").strip(); not (not dialog or
\* len(dialog) < 1) (506-508)
DialogAcceptable(chars) == Strip(chars) # <<>>

\* The word is a substring of the string (`in` applied to a str).
HasWord(chars, word) == \E p \in 1..Len(chars) : chars[p] = word

\* The loop of lines 503-508 from entry k on: "true", "false", or "error"
\* when an entry makes the function raise (TypeError, AttributeError).
RECURSIVE CheckTranscripts(_, _)
CheckTranscripts(entries, k) ==
  IF k > Len(entries) THEN "true"
  ELSE LET e == entries[k]
       IN CASE e.t = "obj" ->
                 IF ~HasKey(e, <<"s">>) \/ ~HasKey(e, <<"d">>) THEN "false"
                 ELSE IF Get(e, <<"d">>).t # "str" THEN "error"
                 ELSE IF ~DialogAcceptable(Get(e, <<"d">>).v) THEN "false"
                 ELSE CheckTranscripts(entries, k + 1)
            [] e.t = "arr" ->
                 IF /\ \E p \in 1..Len(e.v) : e.v[p] = JStr(<<"s">>)
                    /\ \E p \in 1..Len(e.v) : e.v[p] = JStr(<<"d">>)
                   THEN "error" ELSE "false"
            [] e.t = "str" ->
                 IF HasWord(e.v, "s") /\ HasWord(e.v, "d")
                   THEN "error" ELSE "false"
            [] OTHER -> "error"

\* _is_content_quality_acceptable(content, "", "", "script") (492-510) for
\* a content that decodes to an object.
IsContentQualityAcceptable(content) ==
  LET r == Loads(content)
      listed == Get(r.val, <<"k">>)
  IN IF ~r.ok THEN "false"
     ELSE IF ~HasKey(r.val, <<"k">>) THEN "false"
     ELSE IF ~IsTruthy(listed) THEN "false"
     ELSE CASE listed.t = "arr" -> CheckTranscripts(listed.v, 1)
            [] listed.t = "num" -> "error"
            [] listed.t = "str" -> "false"
            [] OTHER ->
                 IF /\ HasWord(listed.v[1][1], "s")
                    /\ HasWord(listed.v[1][1], "d")
                   THEN "error" ELSE "false"

\* ------------------------------------------------ responses of the model
Quoted(chars) == <<"Q">> \o chars \o <<"Q">>

\* {"speaker_id": 1, "dialog": <dialog>}
Entry(dialog) ==
  <<"{">> \o Quoted(<<"s">>) \o <<":", "1", ",">> \o Quoted(<<"d">>)
    \o <<":">> \o dialog \o <<"}">>

\* {"podcast_transcripts": <value>}
Script(value) == <<"{">> \o Quoted(<<"k">>) \o <<":">> \o value \o <<"}">>

GoodScript == Script(<<"[">> \o Entry(Quoted(<<"x">>)) \o <<"]">>)
PaddedScript ==
  Script(<<"w", "[">> \o Entry(Quoted(<<"w", "x">>)) \o <<"]", "w">>)
BlankDialogScript == Script(<<"[">> \o Entry(Quoted(<<"w">>)) \o <<"]">>)
NoDialogScript ==
  Script(<<"[", "{">> \o Quoted(<<"s">>) \o <<":", "1", "}", "]">>)
NumberDialogScript == Script(<<"[">> \o Entry(<<"1">>) \o <<"]">>)
EmptyScript == Script(<<"[", "]">>)
NullScript == Script(<<"n">>)
NumberScript == Script(<<"1">>)
Irrelevant == <<"{">> \o Quoted(<<"x">>) \o <<":", "1", "}">>
NestedScript == <<"{">> \o Quoted(<<"x">>) \o <<":">> \o GoodScript \o <<"}">>
IrrelevantThenScript == Irrelevant \o <<"x">> \o GoodScript

\* Bodies that are one object with the key podcast_transcripts.
ScriptBodies ==
  {GoodScript, PaddedScript, BlankDialogScript, NoDialogScript,
   NumberDialogScript, EmptyScript, NullScript, NumberScript}

Bodies ==
  ScriptBodies \cup {Irrelevant, NestedScript, IrrelevantThenScript, <<>>}

\* What may surround the body: prose, blanks, digits, stray quotes and
\* brackets, a quoted word, an empty object.
NoiseFragments ==
  {<<"x">>, <<"w">>, <<"1">>, <<"Q">>, <<"[">>, <<"]">>, <<"{">>, <<"}">>,
   Quoted(<<"x">>), <<"{", "}">>}

RECURSIVE NoiseUpTo(_)
NoiseUpTo(n) ==
  IF n = 0 THEN {<<>>}
  ELSE NoiseUpTo(n - 1)
         \cup {a \o f : a \in NoiseUpTo(n - 1), f \in NoiseFragments}

\* At most MaxNoise fragments before the body, at most one after it.
NoisePrefixes == NoiseUpTo(MaxNoise)
NoiseSuffixes == NoiseUpTo(1)

\* ------------------------------------------------ _generate_podcast_script
\* Faulty variant of AttemptsUsedUp: the limit is tested with > .
AttemptsUsedUpLate(a) == a > ScriptMaxRetries

\* if attempt >= max_retries (608, 621, 634, 641, 648)
AttemptsUsedUp(a) == a >= ScriptMaxRetries

\* The attempt that just ended failed: one of the branches at 606-638 (kind
\* "notfound", "empty", "gate") or one of the handlers at 639-652 (kind
\* "decode", "transport", "gateerror").  A ValueError raised at 609, 622 or
\* 635 is caught by `except Exception` at 646, which counts once more and
\* raises RuntimeError with the text of the ValueError.
AttemptFailed(kind) ==
  LET structural == kind \in {"notfound", "empty", "gate"}
  IN /\ lastFailure' = kind
     /\ IF AttemptsUsedUp(attempt + 1)
          THEN /\ attempt' = IF structural THEN attempt + 2 ELSE attempt + 1
               /\ spos' = "raised"
               /\ errRaw' = (kind \in {"notfound", "decode"})
               /\ lastDelay' = 0
          ELSE /\ attempt' = attempt + 1
               /\ spos' = "loop"
               /\ lastDelay' = IF structural THEN 0 ELSE attempt + 1
               /\ UNCHANGED errRaw

\* while attempt < max_retries (577) and podscript_json_str = "" (579);
\* leaving the loop ends the function without a return statement.  The
\* locals of the previous iteration are dead here.
WhileHead ==
  /\ spos = "loop"
  /\ spos' = IF attempt < ScriptMaxRetries THEN "request" ELSE "fell_through"
  /\ podscript_json_str' = <<>>
  /\ idx' = 0
  /\ podcast_script' = None
  /\ valid_json_str' = <<>>
  /\ scanned' = <<>>
  /\ noise' = <<<<>>, <<>>>>
  /\ body' = <<>>
  /\ lastFailure' = "none"
  /\ lastDelay' = 0
  /\ UNCHANGED <<attempt, requests, errRaw>>
  /\ UNCHANGED nonScriptVars

\* The upstream request (581-583) returns a text.
RequestReturns(pre, b, suf) ==
  /\ spos = "request"
  /\ requests' = requests + 1
  /\ noise' = <<pre, suf>>
  /\ body' = b
  /\ podscript_json_str' = pre \o b \o suf
  /\ spos' = "scan"
  /\ UNCHANGED <<idx, podcast_script, valid_json_str, scanned, attempt,
                 lastFailure, lastDelay, errRaw>>
  /\ UNCHANGED nonScriptVars

\* The upstream request raises: json.JSONDecodeError ("decode", handler at
\* 639) or anything else ("transport", handler at 646).
RequestFails(kind) ==
  /\ spos = "request"
  /\ requests' = requests + 1
  /\ AttemptFailed(kind)
  /\ UNCHANGED <<podscript_json_str, idx, podcast_script, valid_json_str,
                 scanned, noise, body>>
  /\ UNCHANGED nonScriptVars

\* Faulty variant of AfterFailure: the position is not advanced.
AfterFailureStay(i) == i

\* idx += 1 after a failed decode (597)
AfterFailure(i) == i + 1

\* One iteration of the scan loop (588-602), or its end when idx has
\* reached the end of the text.
ScanStep ==
  /\ spos = "scan"
  /\ IF idx < Len(podscript_json_str)
       THEN LET r == ScanOnce(podscript_json_str, idx)
                next_brace ==
                  FindBrace(podscript_json_str, AfterFailure(idx))
            IN /\ scanned' = Append(scanned, [pos |-> idx, ok |-> r.ok,
                                              end |-> r.end])
               /\ IF r.ok
                    THEN IF IsScriptObject(r.val)
                           THEN /\ podcast_script' = r.val
                                /\ valid_json_str' =
                                     Slice(podscript_json_str, idx, r.end)
                                /\ spos' = "check"
                                /\ UNCHANGED idx
                           ELSE /\ idx' = r.end
                                /\ UNCHANGED <<podcast_script, valid_json_str,
                                               spos>>
                    ELSE /\ IF next_brace # -1
                              THEN idx' = next_brace /\ UNCHANGED spos
                              ELSE /\ idx' = AfterFailure(idx)
                                   /\ spos' = "check"
                         /\ UNCHANGED <<podcast_script, valid_json_str>>
       ELSE /\ spos' = "check"
            /\ UNCHANGED <<idx, podcast_script, valid_json_str, scanned>>
  /\ UNCHANGED <<podscript_json_str, attempt, requests, noise, body,
                 lastFailure, lastDelay, errRaw>>
  /\ UNCHANGED nonScriptVars

\* What follows the scan (606-638): the three structural checks, then the
\* return of the accepted script.
CheckScript ==
  /\ spos = "check"
  /\ IF podcast_script = None
       THEN AttemptFailed("notfound")
       ELSE IF ~IsTruthy(Get(podcast_script, <<"k">>))
         THEN AttemptFailed("empty")
         ELSE LET quality == IsContentQualityAcceptable(valid_json_str)
              IN IF quality = "true"
                   THEN /\ spos' = "returned"
                        /\ UNCHANGED <<attempt, lastFailure, lastDelay, errRaw>>
                   ELSE IF quality = "false" THEN AttemptFailed("gate")
                   ELSE AttemptFailed("gateerror")
  /\ UNCHANGED <<podscript_json_str, idx, podcast_script, valid_json_str,
                 requests, scanned, noise, body>>
  /\ UNCHANGED nonScriptVars

\* ------------------------------------------------------------ SpecScript
\* One call of _generate_podcast_script; every response is a body with at
\* most MaxNoise noise fragments before it and at most one after it.
InitScript ==
  /\ podscript_json_str = <<>>
  /\ idx = 0
  /\ podcast_script = None
  /\ valid_json_str = <<>>
  /\ attempt = 0
  /\ requests = 0
  /\ spos = "loop"
  /\ scanned = <<>>
  /\ noise = <<<<>>, <<>>>>
  /\ body = <<>>
  /\ lastFailure = "none"
  /\ lastDelay = 0
  /\ errRaw = FALSE
  /\ RosterOff
  /\ PipelineOff
  /\ TrimOff
  /\ DialogOff
  /\ AdapterOff

NextScript ==
  \/ WhileHead
  \/ /\ spos = "request"
     /\ \E pre \in NoisePrefixes, b \in Bodies, suf \in NoiseSuffixes :
          RequestReturns(pre, b, suf)
  \/ \E kind \in {"decode", "transport"} : RequestFails(kind)
  \/ ScanStep
  \/ CheckScript

SpecScript == InitScript /\ [][NextScript]_vars


\* ---------------------------------------------------- trim_audio_silence
\* Times are in hundredths of a second, so the comparisons of the source
\* are exact here.
Second == 2 * MinSilence

\* Optional[float]: None, or a float.
NoFloat == <<>>

Float(d) == <<d>>

Max(a, b) == IF a >= b THEN a ELSE b

Min(a, b) == IF a <= b THEN a ELSE b

\* Durations of the input clip: the shortest ones around the 0.01 s
\* threshold, and every half second up to MaxD seconds.
Durations ==
  {0, Epsilon, Epsilon + 1} \cup {k * MinSilence : k \in 1..(2 * MaxD)}

\* Instants at which a reported silence interval of a clip of duration d
\* starts or ends: the instants the rules of the window compare against, and
\* the whole seconds.
Points(d) ==
  {t \in {0, Pad, MinSilence, d - MinSilence - Pad, d - MinSilence, d - Pad,
          d} \cup {k * Second : k \in 0..MaxD} : 0 <= t /\ t <= d}

\* How the tool can print an instant on a silencedetect line: always with a
\* fractional part ("1.5") when it is not a whole number of seconds, with or
\* without one ("3.000000" or "3", "0") when it is.
Forms(t) == IF t % Second = 0 THEN BOOLEAN ELSE {TRUE}

\* One silence interval as the tool reports it: a silence_start line and a
\* silence_end line; startPoint and endPoint tell whether the instant is
\* printed with a decimal point.
Intervals(d) ==
  {[start |-> s, end |-> e, startPoint |-> sp, endPoint |-> ep] :
     s \in Points(d), e \in Points(d), sp \in BOOLEAN, ep \in BOOLEAN}

WellFormed(iv) ==
  /\ iv.start < iv.end
  /\ iv.startPoint \in Forms(iv.start)
  /\ iv.endPoint \in Forms(iv.end)

\* What one silencedetect pass reports: at most MaxIntervals intervals, in
\* the order of the stream, one after the other.
Reports(d) ==
  {r \in SeqsUpTo({iv \in Intervals(d) : WellFormed(iv)}, MaxIntervals) :
     \A i \in 1..(Len(r) - 1) : r[i].end < r[i + 1].start}

\* process.stderr.splitlines() (292): two lines per reported interval.
StderrLines(report) ==
  [k \in 1..(2 * Len(report)) |->
     IF k % 2 = 1
       THEN [key |-> "silence_start", t |-> report[(k + 1) \div 2].start,
             point |-> report[(k + 1) \div 2].startPoint]
       ELSE [key |-> "silence_end", t |-> report[k \div 2].end,
             point |-> report[k \div 2].endPoint]]

\* The loop of lines 299-310 for one key: re.search(key + r": (\d+\.\d+)")
\* matches a line only when the instant is printed with a decimal point;
\* float(match.group(1)) of every matched line, in order.
Matched(lines, key) ==
  LET sel == SelectSeq(lines, LAMBDA l : l.key = key /\ l.point)
  IN  [k \in 1..Len(sel) |-> sel[k].t]

\* start_trim_val after lines 318-326.
StartTrimVal(starts, ends) ==
  IF starts # <<>> /\ ends # <<>> /\ starts[1] = 0
    THEN Max(0, ends[1] - Pad)
    ELSE 0

\* end_trim_val after lines 319-331.
EndTrimVal(starts, ends, d) ==
  IF starts # <<>> /\ ends # <<>> /\ ends[Len(ends)] >= d - MinSilence
    THEN Min(d, starts[Len(starts)] + Pad)
    ELSE d

TooShortStrict(w) == w < Epsilon
\* (end_trim_val - start_trim_val) <= 0.01 (334)
TooShort(w) == w <= Epsilon

\* What one run of an ffmpeg command that writes the output clip can do:
\* succeed, or exit non-zero having written nothing or part of the file.
RunOutcomes == {"ok", "failed", "failed_partial"}

LeftBy(outcome) == IF outcome = "failed_partial" THEN "partial" ELSE "none"

\* Entry of trim_audio_silence (265).
TrimEntry ==
  /\ tpos = "entry"
  /\ IF enable_trim
       THEN tpos' = "probe" /\ copyWhy' = copyWhy
       ELSE tpos' = "copy" /\ copyWhy' = "disabled"
  /\ UNCHANGED <<enable_trim, clip_duration, detected, silence_starts,
                 silence_ends, current_audio_duration, start_trim_val,
                 end_trim_val, output, trimError, trimmed_duration>>
  /\ UNCHANGED nonTrimVars

\* ffmpeg -version (273-277): FileNotFoundError becomes RuntimeError.
ProbeFfmpeg(found) ==
  /\ tpos = "probe"
  /\ IF found
       THEN tpos' = "detect" /\ trimError' = trimError
       ELSE tpos' = "raised" /\ trimError' = "ffmpeg_missing"
  /\ UNCHANGED <<enable_trim, clip_duration, detected, silence_starts,
                 silence_ends, current_audio_duration, start_trim_val,
                 end_trim_val, copyWhy, output, trimmed_duration>>
  /\ UNCHANGED nonTrimVars

\* The silencedetect pass and the parse of its lines (281-310).  The pass
\* runs with check=False; the first get_audio_duration (294) sets end_trim,
\* which is never read.
DetectSilence ==
  /\ tpos = "detect"
  /\ silence_starts' = Matched(StderrLines(detected), "silence_start")
  /\ silence_ends' = Matched(StderrLines(detected), "silence_end")
  /\ tpos' = "duration"
  /\ UNCHANGED <<enable_trim, clip_duration, detected,
                 current_audio_duration, start_trim_val, end_trim_val,
                 copyWhy, output, trimError, trimmed_duration>>
  /\ UNCHANGED nonTrimVars

\* Faulty variant of IsNone: an undetermined duration is not noticed.
IsNoneNever(d) == FALSE

\* if current_audio_duration is None (313)
IsNone(d) == d = NoFloat

\* get_audio_duration(input_filepath) and the window (312-331).
ProbeDuration(known) ==
  /\ tpos = "duration"
  /\ current_audio_duration' =
       IF known THEN Float(clip_duration) ELSE NoFloat
  /\ IF ~IsNone(current_audio_duration')
       THEN /\ start_trim_val' = StartTrimVal(silence_starts, silence_ends)
            /\ end_trim_val' =
                 EndTrimVal(silence_starts, silence_ends, clip_duration)
            /\ tpos' = "window"
            /\ copyWhy' = copyWhy
       ELSE /\ tpos' = "copy"
            /\ copyWhy' = "noduration"
            /\ UNCHANGED <<start_trim_val, end_trim_val>>
  /\ UNCHANGED <<enable_trim, clip_duration, detected, silence_starts,
                 silence_ends, output, trimError, trimmed_duration>>
  /\ UNCHANGED nonTrimVars

\* The test of line 334.
CheckWindow ==
  /\ tpos = "window"
  /\ IF TooShort(end_trim_val - start_trim_val)
       THEN tpos' = "copy" /\ copyWhy' = "unsafe"
       ELSE tpos' = "reencode" /\ copyWhy' = copyWhy
  /\ UNCHANGED <<enable_trim, clip_duration, detected, silence_starts,
                 silence_ends, current_audio_duration, start_trim_val,
                 end_trim_val, output, trimError, trimmed_duration>>
  /\ UNCHANGED nonTrimVars

\* ffmpeg -i input -c copy output with check=True (267, 315, 337); a
\* CalledProcessError leaves as RuntimeError (270-271, 357-359).
VerbatimCopy(outcome) ==
  /\ tpos = "copy"
  /\ IF outcome = "ok"
       THEN tpos' = "returned" /\ output' = "copy" /\ trimError' = trimError
       ELSE tpos' = "raised" /\ output' = LeftBy(outcome)
            /\ trimError' = "copy"
  /\ UNCHANGED <<enable_trim, clip_duration, detected, silence_starts,
                 silence_ends, current_audio_duration, start_trim_val,
                 end_trim_val, copyWhy, trimmed_duration>>
  /\ UNCHANGED nonTrimVars

\* The windowed re-encode with check=True (340-353).
Reencode(outcome) ==
  /\ tpos = "reencode"
  /\ IF outcome = "ok"
       THEN tpos' = "measure" /\ output' = "trimmed"
            /\ trimError' = trimError
       ELSE tpos' = "raised" /\ output' = LeftBy(outcome)
            /\ trimError' = "reencode"
  /\ UNCHANGED <<enable_trim, clip_duration, detected, silence_starts,
                 silence_ends, current_audio_duration, start_trim_val,
                 end_trim_val, copyWhy, trimmed_duration>>
  /\ UNCHANGED nonTrimVars

\* get_audio_duration(output_filepath) and the message of line 355:
\* f"{trimmed_duration:.2f}" of None raises TypeError, which leaves as
\* RuntimeError (360-361); the trimmed clip stays on disk.
MeasureTrimmed(known) ==
  /\ tpos = "measure"
  /\ IF known
       THEN /\ trimmed_duration' = "float"
            /\ tpos' = "returned"
            /\ trimError' = trimError
       ELSE /\ trimmed_duration' = "None"
            /\ tpos' = "raised"
            /\ trimError' = "format"
  /\ UNCHANGED <<enable_trim, clip_duration, detected, silence_starts,
                 silence_ends, current_audio_duration, start_trim_val,
                 end_trim_val, copyWhy, output>>
  /\ UNCHANGED nonTrimVars

\* One call of trim_audio_silence on a clip of some duration, with some
\* report of the silencedetect pass.
InitTrim ==
  /\ enable_trim \in BOOLEAN
  /\ clip_duration \in Durations
  /\ detected \in Reports(clip_duration)
  /\ silence_starts = <<>>
  /\ silence_ends = <<>>
  /\ current_audio_duration = NoFloat
  /\ start_trim_val = 0
  /\ end_trim_val = 0
  /\ tpos = "entry"
  /\ copyWhy = "none"
  /\ output = "none"
  /\ trimError = "none"
  /\ trimmed_duration = "unset"
  /\ RosterOff
  /\ PipelineOff
  /\ ScriptOff
  /\ DialogOff
  /\ AdapterOff

NextTrim ==
  \/ TrimEntry
  \/ \E found \in BOOLEAN : ProbeFfmpeg(found)
  \/ DetectSilence
  \/ \E known \in BOOLEAN : ProbeDuration(known)
  \/ CheckWindow
  \/ \E outcome \in RunOutcomes : VerbatimCopy(outcome)
  \/ \E outcome \in RunOutcomes : Reencode(outcome)
  \/ \E known \in BOOLEAN : MeasureTrimmed(known)

SpecTrim == InitTrim /\ [][NextTrim]_vars


\* --------------------------------- one dialog, from gate to backend
\* Characters by class: "x" is a character \w matches (a letter, a digit,
\* an underscore, a CJK ideograph), "w" a blank (\s, removed by strip()),
\* "," one of the punctuation marks the pattern of line 681 lists, and "@"
\* any other character (a symbol, a quote, an ellipsis, an emoji).
DialogChars == {"x", "w", ",", "@"}

\* The classes the pattern of line 681 does not match: it matches every
\* character but \w, \s, the marks - , . ? ! with their full-width forms,
\* and \u4e00-\u9fa5.
KeptBySub(c) == c \in {"x", "w", ","}

\* re.sub(pattern, '', dialog) (681): the matched characters are removed.
Sanitize(chars) == SelectSeq(chars, KeptBySub)

\* The test of lines 505-507 on the dialog of the utterance.
QualityGate ==
  /\ dpos = "gate"
  /\ dpos' = IF DialogAcceptable(item_dialog) THEN "accepted" ELSE "rejected"
  /\ UNCHANGED <<item_dialog, sent_text>>
  /\ UNCHANGED nonDialogVars

\* generate_audio_for_item on the accepted utterance: the dialog is
\* sanitized (681) and handed to the backend as text (687-688).
SanitizeAndCall ==
  /\ dpos = "accepted"
  /\ sent_text' = Sanitize(item_dialog)
  /\ dpos' = "call"
  /\ UNCHANGED item_dialog
  /\ UNCHANGED nonDialogVars

\* One utterance with any dialog of at most MaxDialog characters.
InitDialog ==
  /\ item_dialog \in SeqsUpTo(DialogChars, MaxDialog)
  /\ sent_text = <<>>
  /\ dpos = "gate"
  /\ RosterOff
  /\ PipelineOff
  /\ ScriptOff
  /\ TrimOff
  /\ AdapterOff

NextDialog ==
  \/ QualityGate
  \/ SanitizeAndCall

SpecDialog == InitDialog /\ [][NextDialog]_vars

\* -------------------------------------- adapters of the API entry points
\* An owner is a sequence of symbols: a provider name, "w" for a blank,
\* "," for a comma; <<>> is a missing or empty owner field.
EdgeTts == <<"edge-tts">>
IndexTts == <<"index-tts">>
OwnerNames == {<<>>, EdgeTts, IndexTts, <<"w", "edge-tts">>, <<"other">>}

\* Providers _initialize_tts_adapter has a branch for (two of the six).
Supported == {EdgeTts, IndexTts}

\* ",".join(owners) (410)
RECURSIVE JoinComma(_)
JoinComma(parts) ==
  IF parts = <<>> THEN <<>>
  ELSE IF Len(parts) = 1 THEN parts[1]
  ELSE parts[1] \o <<",">> \o JoinComma(Tail(parts))

\* tts_provider.split(',') (841)
RECURSIVE SplitComma(_)
SplitComma(chars) ==
  LET commas == {k \in 1..Len(chars) : chars[k] = ","}
  IN IF commas = {} THEN <<chars>>
     ELSE LET k == CHOOSE c \in commas : \A d \in commas : c <= d
          IN <<SubSeq(chars, 1, k - 1)>>
               \o SplitComma(SubSeq(chars, k + 1, Len(chars)))

\* list(set(...)) (406): the distinct owners in any order.
Orderings(S) ==
  {f \in [1..Cardinality(S) -> S] : {f[k] : k \in 1..Cardinality(S)} = S}

\* _load_configuration_path(config_path, podUsers) (390-420) sets
\* config_data["tts_provider"] from the truthy owners of the roster.
LoadConfigurationPath ==
  /\ apos = "load"
  /\ LET owners == {user_owners[k] : k \in 1..Len(user_owners)} \ {<<>>}
     IN IF owners # {}
          THEN \E ord \in Orderings(owners) : tts_provider' = JoinComma(ord)
          ELSE tts_provider' = EdgeTts
  /\ apos' = "init"
  /\ UNCHANGED <<user_owners, adapters_map, selected>>
  /\ UNCHANGED nonAdapterVars

\* _initialize_tts_adapter (817-897): one adapter per stripped provider
\* name; ValueError for a name without a branch (895) and for a provider
\* whose apiUrl, headers or payload is not configured.
InitializeAdaptersMap(configured) ==
  /\ apos = "init"
  /\ LET parts == SplitComma(tts_provider)
         providers == {Strip(parts[k]) : k \in 1..Len(parts)}
     IN IF providers \subseteq configured
          THEN adapters_map' = providers /\ apos' = "select"
          ELSE adapters_map' = adapters_map /\ apos' = "failed"
  /\ UNCHANGED <<user_owners, tts_provider, selected>>
  /\ UNCHANGED nonAdapterVars

\* tts_adapter[voice_tts_provider] (679) for an utterance of each roster
\* entry, voice_tts_provider being the owner field of the entry (668).
SelectAdapters ==
  /\ apos = "select"
  /\ selected' = [k \in 1..Len(user_owners) |->
                    user_owners[k] \in adapters_map]
  /\ apos' = "done"
  /\ UNCHANGED <<user_owners, tts_provider, adapters_map>>
  /\ UNCHANGED nonAdapterVars

\* A roster of at most MaxSpeakers entries, each with any owner.
InitAdapter ==
  /\ user_owners \in SeqsUpTo(OwnerNames, MaxSpeakers)
  /\ tts_provider = <<>>
  /\ adapters_map = {}
  /\ selected = <<>>
  /\ apos = "load"
  /\ RosterOff
  /\ PipelineOff
  /\ ScriptOff
  /\ TrimOff
  /\ DialogOff

NextAdapter ==
  \/ LoadConfigurationPath
  \/ \E configured \in SUBSET Supported : InitializeAdaptersMap(configured)
  \/ SelectAdapters

SpecAdapter == InitAdapter /\ [][NextAdapter]_vars


\* ================================================================ claims
\* _generate_all_audio_files returned its list (it did not raise).
Returned ==
  \/ pc \in {"filelist", "merge", "done"}
  \/ pc = "failed" /\ error \in {"nofiles", "count", "ffmpeg_missing",
                                  "ffmpeg_failed"}

\* <<1, ..., n>>: the clips of utterances 1..n in index order.
InOrder(n) == [k \in 1..n |-> k]

\* Tasks whose backend failed fatally (the task raised after a backend call).
FatalBackend == {i \in Idx : res[i] = "exc" /\ hist[i] # <<>>}

\* Some call of task i returned without raising.
SomeCallReturned(i) ==
  \E p \in 1..Len(hist[i]) : hist[i][p] \in {"ok", "empty"}

\* C1: whenever _generate_all_audio_files returns normally, the returned
\* list has exactly N clips, position k holds the clip synthesized from
\* utterance k, and so does line k of the manifest once it is written.
C1_ClipsInIndexOrder ==
  Returned =>
    /\ audio_files = InOrder(N)
    /\ (manifestOnDisk => manifest = InOrder(N))

\* C2: a finished run either returned normally with a complete final file
\* built from all N clips in index order, or raised and left no final
\* audio file; a final file built from fewer than N clips never exists.
C2_CompleteOrNothing ==
  /\ (pc = "done" => mp3 = "complete" /\ mp3From = InOrder(N))
  /\ (pc = "failed" => mp3 = "none")
  /\ (mp3 # "none" => Len(mp3From) = N)

\* C3: when exactly one utterance's backend fails fatally, no output file
\* is produced and at most concurrency+1 backend calls are begun after the
\* failing call failed.
C3_BoundedCallsAfterFailure ==
  (Cardinality(FatalBackend) = 1 /\ \A i \in Idx : transcripts[i] = "ok") =>
    /\ afterFail <= threads + 1
    /\ mp3 = "none"

\* C4: once the loop has observed a task failure, every task that had not
\* started then is cancelled without ever running, no further result is
\* trimmed or stored, and the manifest and merge steps are never executed.
C4_NothingStartsAfterObserved ==
  exception_caught # 0 =>
    /\ \A j \in pendingAtObs : fut[j] \in {"pending", "cancelled"} /\ Calls(j) = 0
    /\ (cursor > N => \A j \in pendingAtObs : fut[j] = "cancelled")
    /\ pc \in {"cancel", "failed"}
    /\ ~manifestOnDisk /\ mergeResult = "notrun"

\* C5: with the default attempt limit a task makes at most 3 backend calls,
\* makes none after a call that returned, ends without an error iff one of
\* its calls returned, returns a clip after exactly 3 calls when the
\* backend fails transiently twice and then succeeds, and ends with an
\* error after three transient failures.
C5_AttemptLimit ==
  max_retries = DefaultMaxRetries =>
    \A i \in Idx :
      /\ Calls(i) <= DefaultMaxRetries
      /\ \A p \in 1..Len(hist[i]) :
           hist[i][p] \in {"ok", "empty"} =>
             p = Len(hist[i]) /\ fut[i] = "finished" /\ tpc[i] = "idle"
      /\ (fut[i] = "finished" => (res[i] # "exc" <=> SomeCallReturned(i)))
      /\ (res[i] = "clip" <=> (hist[i] # <<>> /\ hist[i][Len(hist[i])] = "ok"))
      /\ (hist[i] = <<"transient", "transient", "ok">> =>
            res[i] = "clip" /\ Calls(i) = 3)
      /\ (hist[i] = <<"transient", "transient", "transient">> =>
            fut[i] = "finished" /\ res[i] = "exc")

\* C5 witness: a task got its clip on the third call after two transient
\* failures, under the default limit.
C5_Witness ==
  /\ max_retries = DefaultMaxRetries
  /\ \E i \in Idx :
       /\ hist[i] = <<"transient", "transient", "ok">>
       /\ res[i] = "clip"
       /\ i \in DOMAIN audio_files_dict

\* C6: a backend call that fails with an unexpected (non-RuntimeError)
\* failure is the last call of its task: the task ends at once with an
\* error, without sleeping or calling again, and that error is what the
\* loop sees when it collects the future.
C6_UnexpectedNotRetried ==
  \A i \in Idx :
    \A p \in 1..Len(hist[i]) :
      hist[i][p] = "unexpected" =>
        /\ p = Len(hist[i])
        /\ Calls(i) = p
        /\ fut[i] = "finished" /\ tpc[i] = "idle" /\ res[i] = "exc"
        /\ (i \in collected => exception_caught = i)

\* C6 witness: an unexpected failure on a retry was collected by the loop.
C6_Witness ==
  \E i \in Idx :
    /\ hist[i] = <<"transient", "unexpected">>
    /\ i \in collected
    /\ exception_caught = i

\* C7: whenever _generate_all_audio_files returns normally, the number of
\* clips it returns equals the number of input utterances.
C7_NoSilentDrop ==
  Returned => Len(audio_files) = N

\* C8: _create_ffmpeg_file_list raises whenever the clip count differs from
\* the transcript count or is zero, and then no manifest is written and
\* merge_audio_files is never invoked; a manifest exists only if the counts
\* matched.
C8_ManifestOnlyIfCountMatches ==
  /\ (manifestOnDisk \/ manifest # <<>> \/ mergeResult # "notrun" =>
        Len(audio_files) = N /\ N > 0 /\ manifest = audio_files)
  /\ (Returned /\ pc # "filelist" /\ Len(audio_files) # N =>
        /\ pc = "failed" /\ error \in {"count", "nofiles"}
        /\ ~manifestOnDisk /\ manifest = <<>> /\ mergeResult = "notrun"
        /\ ~wav /\ mp3 = "none")

\* C8 witness: one of two clips is missing and the run failed on the count.
C8_Witness ==
  /\ pc = "failed" /\ error = "count"
  /\ N = 2 /\ Len(audio_files) = 1
  /\ ~manifestOnDisk

\* C9: once merge_audio_files has completed, by any path, every clip named
\* in the manifest, the manifest and the intermediate WAV are deleted.
C9_CleanupOnEveryPath ==
  mergeResult # "notrun" =>
    /\ trimmed \cap Named(manifest) = {}
    /\ ~manifestOnDisk
    /\ ~wav

\* A run in which every backend call returned a clip and the trims and the
\* merge succeeded.
AllStepsSucceeded ==
  /\ pc = "done"
  /\ \A i \in Idx : hist[i] = <<"ok">>

CatalogVoice(k) ==
  LET same == {j \in 1..Len(voices) :
                 voices[j].code = pod_users[k].code /\ voices[j].code # ""}
  IN IF same = {} THEN NoVoice
     ELSE voices[CHOOSE j \in same : \A i \in same : i <= j]

\* The first non-empty of usedname, alias, name of that voice, "" if none.
ExpectedName(k) ==
  LET cand == <<CatalogVoice(k).usedname, CatalogVoice(k).alias,
                CatalogVoice(k).name>>
      set == {p \in 1..3 : cand[p] # ""}
  IN IF set = {} THEN "" ELSE cand[CHOOSE p \in set : \A q \in set : p <= q]

\* Roster positions whose code is absent from the catalog or names a voice
\* without usedname, alias and name.
Unnamed == {k \in 1..Len(pod_users) : ExpectedName(k) = ""}

\* C11: when the roster has an entry whose voice code is absent from the
\* catalog or has no usedname, alias or name, the run can only fail in
\* generate_speaker_id_text: no task is submitted, no backend call is ever
\* made and no output exists.
C11_NoCallWhenRosterUnresolved ==
  Unnamed # {} =>
    /\ pc \in {"prepare", "failed"}
    /\ (pc = "failed" => error = "speaker" /\ ~speaker_id_info.ok)
    /\ nsub = 0
    /\ \A i \in Idx : Calls(i) = 0 /\ fut[i] = "unsubmitted"
    /\ mp3 = "none"

\* C11 witness: the second roster entry names a code the catalog lacks
\* and the run failed on it.
C11_Witness ==
  /\ Len(pod_users) = 2 /\ pod_users[1].code = "a" /\ pod_users[2].code = "c"
  /\ pc = "failed" /\ error = "speaker"
  /\ speaker_id_info.code = "c" /\ speaker_id_info.speaker_id = 1

\* C12: if some utterance of the accepted script carries a speaker_id
\* outside the roster, no backend call is made for any utterance of the
\* run.
C12_NoCallWhenSpeakerOutsideRoster ==
  (\E i \in Idx : transcripts[i] = "novoice") =>
    \A j \in Idx : Calls(j) = 0

ClausesOf(text) == SelectSeq(text, LAMBDA t : t # FullStop)

\* C18: generate_speaker_id_text takes for each roster entry the first
\* non-empty of usedname, alias, name of the voice with its code; when
\* some entry has none it raises at the first such entry, naming its code
\* and its speaker_id; otherwise the briefing has exactly one clause per
\* roster entry, in roster order, each ended by the separator.
C18_ResolverNamesAndOrder ==
  speaker_id_info # NotCalled =>
    IF Unnamed # {}
      THEN LET k == CHOOSE x \in Unnamed : \A y \in Unnamed : x <= y
           IN /\ ~speaker_id_info.ok
              /\ speaker_id_info.code = pod_users[k].code
              /\ speaker_id_info.speaker_id = k - 1
      ELSE LET text == speaker_id_info.text
               n == Len(pod_users)
           IN /\ speaker_id_info.ok
              /\ Len(ClausesOf(text)) = n
              /\ Len(text) = IF n = 0 THEN 1 ELSE 2 * n
              /\ \A k \in 1..n :
                   /\ text[2 * k - 1] =
                        Clause(k - 1, ExpectedName(k), pod_users[k].role)
                   /\ text[2 * k] = FullStop

\* C18 witness: a two-speaker roster resolved, the first speaker through
\* the usedname of a voice that also has an alias and a name, the second
\* through the name of a voice that has nothing else.
C18_Witness ==
  /\ speaker_id_info.ok
  /\ Len(pod_users) = 2
  /\ CatalogVoice(1) = Voice("a", "U", "A", "N")
  /\ CatalogVoice(2) = Voice("b", "", "", "N")
  /\ ClausesOf(speaker_id_info.text) =
       <<Clause(0, "U", pod_users[1].role), Clause(1, "N", pod_users[2].role)>>

\* ------------------------------------------------------ script extraction
\* Decoding at position q of text s gives an object with the key
\* podcast_transcripts.
ScriptAt(s, q) == ScanOnce(s, q).ok /\ IsScriptObject(ScanOnce(s, q).val)

\* Entry k of the scan decoded a value without the key and skipped it.
Skipped(k) ==
  scanned[k].ok /\ ~ScriptAt(podscript_json_str, scanned[k].pos)

\* Positions strictly inside a value the scan decoded and skipped: what
\* starts there is not at the top level of the text.
Covered ==
  {q \in 0..(Len(podscript_json_str) - 1) :
     \E k \in 1..Len(scanned) :
       Skipped(k) /\ scanned[k].pos < q /\ q < scanned[k].end}

\* q is the first '{' after position p.
NextBraceAfter(p, q) ==
  /\ p < q /\ q < Len(podscript_json_str)
  /\ At(podscript_json_str, q) = "{"
  /\ \A r \in (p + 1)..(q - 1) : At(podscript_json_str, r) # "{"

\* C14: the scan starts at position 0; after decoding a value without the
\* key it goes on right after that value; after a failed decode it goes
\* on at the next '{' and ends if there is none; it accepts the first
\* object with the key podcast_transcripts that starts at a top-level
\* position, and it ends without one only if no top-level position of the
\* text starts such an object.
C14_ScanAcceptsFirstTopLevelScript ==
  LET s == podscript_json_str
      n == Len(scanned)
  IN /\ (n > 0 => scanned[1].pos = 0)
     /\ \A k \in 1..n :
          /\ scanned[k].ok = ScanOnce(s, scanned[k].pos).ok
          /\ (ScriptAt(s, scanned[k].pos) =>
                /\ k = n
                /\ podcast_script = ScanOnce(s, scanned[k].pos).val
                /\ valid_json_str = Slice(s, scanned[k].pos, scanned[k].end))
          /\ (k < n /\ Skipped(k) => scanned[k + 1].pos = scanned[k].end)
          /\ (k < n /\ ~scanned[k].ok =>
                NextBraceAfter(scanned[k].pos, scanned[k + 1].pos))
     /\ (podcast_script # None =>
          /\ n > 0 /\ ScriptAt(s, scanned[n].pos)
          /\ \A q \in 0..(scanned[n].pos - 1) : ScriptAt(s, q) => q \in Covered)
     /\ (spos = "check" /\ podcast_script = None =>
          /\ \A q \in 0..(Len(s) - 1) : ScriptAt(s, q) => q \in Covered
          /\ (n > 0 /\ ~scanned[n].ok =>
                \A q \in (scanned[n].pos + 1)..(Len(s) - 1) : At(s, q) # "{")
          /\ (n > 0 /\ scanned[n].ok => scanned[n].end >= Len(s)))

\* C14 witness: the scan failed on a leading letter, went on at the next
\* '{', skipped the object without the key that starts there, failed on
\* the letter after it, and accepted the script at the next '{'.
C14_Witness ==
  /\ noise[1] = <<"x">> /\ body = IrrelevantThenScript
  /\ spos = "check"
  /\ podscript_json_str = <<"x">> \o Irrelevant \o <<"x">> \o GoodScript
  /\ scanned = <<[pos |-> 0, ok |-> FALSE, end |-> 0],
                 [pos |-> 1, ok |-> TRUE, end |-> 1 + Len(Irrelevant)],
                 [pos |-> 1 + Len(Irrelevant), ok |-> FALSE, end |-> 0],
                 [pos |-> 2 + Len(Irrelevant), ok |-> TRUE,
                  end |-> 2 + Len(Irrelevant) + Len(GoodScript)]>>
  /\ valid_json_str = GoodScript

\* C15: when the text is one podcast_transcripts object surrounded by
\* noise, the scan yields the structure of that object whatever the noise
\* before and after it.
C15_SameStructureUnderNoise ==
  (spos = "check" /\ body \in ScriptBodies) =>
    /\ podcast_script = Loads(body).val
    /\ valid_json_str = body

\* The quality gate as a property of a decoded script: a non-empty array
\* whose entries are objects with a speaker_id and a dialog string that
\* has a symbol other than a blank.
GateHolds(script) ==
  /\ IsScriptObject(script)
  /\ Get(script, <<"k">>).t = "arr"
  /\ Get(script, <<"k">>).v # <<>>
  /\ \A p \in 1..Len(Get(script, <<"k">>).v) :
       LET e == Get(script, <<"k">>).v[p]
       IN /\ e.t = "obj"
          /\ HasKey(e, <<"s">>)
          /\ HasKey(e, <<"d">>)
          /\ Get(e, <<"d">>).t = "str"
          /\ \E c \in 1..Len(Get(e, <<"d">>).v) : Get(e, <<"d">>).v[c] # "w"

\* The scan found a candidate that does not satisfy the gate.
CandidateRejected == spos = "check" /\ podcast_script # None
                       /\ ~GateHolds(podcast_script)

\* C16: a script returned by _generate_podcast_script satisfies the
\* quality gate; a candidate that does not is not returned: the attempt
\* ends, no new request is made in that step, and the attempt counter
\* grows by one when the loop goes on.
C16_ReturnedScriptPassesGate ==
  /\ [](spos = "returned" => GateHolds(podcast_script))
  /\ [][CandidateRejected =>
          /\ spos' \in {"loop", "raised"}
          /\ requests' = requests
          /\ attempt' > attempt
          /\ (spos' = "loop" => attempt' = attempt + 1)
          /\ (spos' = "raised" => requests = ScriptMaxRetries)]_vars

\* C16 witness: the third response, a script with blanks around its
\* array and inside its dialog, preceded by noise, was returned.
C16_Witness ==
  /\ spos = "returned" /\ requests = 3
  /\ body = PaddedScript /\ noise[1] # <<>>
  /\ podcast_script = Loads(PaddedScript).val

\* C17: at most 3 responses are requested; every attempt that failed made
\* exactly one request; a candidate that satisfies the gate is returned
\* in the attempt that found it; the function raises only after exactly 3
\* requests, never ends without returning or raising, and does nothing
\* after it returned or raised.
C17_AtMostThreeRequests ==
  /\ [](/\ requests <= ScriptMaxRetries
        /\ spos # "fell_through"
        /\ (spos \in {"loop", "request"} => requests = attempt)
        /\ (spos \in {"scan", "check", "returned"} => requests = attempt + 1)
        /\ (spos = "raised" =>
              requests = ScriptMaxRetries /\ attempt >= ScriptMaxRetries))
  /\ [][/\ spos \notin {"returned", "raised"}
         /\ (spos = "check" /\ GateHolds(podcast_script) =>
               spos' = "returned" /\ requests' = requests)]_vars

\* C17 witness: a transport failure, then a response without any object,
\* then a response with an empty array: the third failure raised.
C17_Witness ==
  /\ spos = "raised" /\ requests = 3
  /\ lastFailure = "empty" /\ body = EmptyScript

\* The window has been computed: lines 318-331 have run.
WindowChosen == current_audio_duration # NoFloat /\ tpos # "window"

\* The computed window is at most 0.01 s long.
TrimUnsafe == WindowChosen /\ end_trim_val - start_trim_val <= Epsilon

EndingNearEnd ==
  {i \in 1..Len(detected) : detected[i].end >= clip_duration - MinSilence}

\* The reported intervals that start at time 0.
StartingAtZero == {i \in 1..Len(detected) : detected[i].start = 0}

\* The window the rules give for the reported intervals.
WindowFollowsRules ==
  /\ IF StartingAtZero # {}
       THEN \E i \in StartingAtZero :
              start_trim_val = Max(0, detected[i].end - Pad)
       ELSE start_trim_val = 0
  /\ IF EndingNearEnd # {}
       THEN \E i \in EndingNearEnd :
              end_trim_val = Min(clip_duration, detected[i].start + Pad)
       ELSE end_trim_val = clip_duration

\* The window lies inside the clip, and a re-encoded window is longer than
\* 0.01 s and no longer than the clip.
WindowInsideClip ==
  /\ 0 <= start_trim_val
  /\ end_trim_val <= clip_duration
  /\ tpos \in {"reencode", "measure"} \/ output = "trimmed" =>
       /\ end_trim_val - start_trim_val > Epsilon
       /\ end_trim_val - start_trim_val <= clip_duration

\* C20: for a clip of duration D with detected silence intervals, trim-in
\* is max(0, end of the interval starting at 0 minus 0.2 s) if an interval
\* starts at 0 and 0 otherwise, trim-out is min(D, start of the interval
\* ending within 0.5 s of D plus 0.2 s) if there is one and D otherwise;
\* 0 <= trim-in, trim-out <= D, and a re-encoded window is longer than
\* 0.01 s and no longer than D.
C20_WindowFromDetectedIntervals ==
  WindowChosen => WindowFollowsRules /\ WindowInsideClip

\* Every line of the report is printed with a decimal point.
AllLinesParse ==
  \A i \in 1..Len(detected) : detected[i].startPoint /\ detected[i].endPoint

\* The window follows the rules when every reported line is parsed, and it
\* lies inside the clip whatever is parsed.
WindowWhenAllLinesParse ==
  WindowChosen =>
    /\ WindowInsideClip
    /\ AllLinesParse => WindowFollowsRules

\* ------------------------------------------- worker pool and its results
\* Tasks with a backend call in progress.
InCall == {i \in Idx : tpc[i] = "incall"}

\* The submission loop of _generate_all_audio_files has been completed.
AllSubmitted ==
  \/ pc \in {"loop", "cancel", "filelist", "merge", "done"}
  \/ pc = "failed" /\ error \in {"synthesis", "nofiles", "count",
                                  "ffmpeg_missing", "ffmpeg_failed"}

\* C22: at every moment of a run with concurrency c >= 1 at most c backend
\* calls are in progress, and exactly one task is submitted per utterance:
\* the indices are submitted one by one, each once, and all N of them once
\* the submission loop is done.
C22_AtMostCCallsOneTaskEach ==
  /\ [](/\ Cardinality(InCall) <= threads
        /\ Cardinality(Running) <= threads
        /\ nsub <= N
        /\ \A i \in Idx : fut[i] # "unsubmitted" <=> i <= nsub
        /\ (AllSubmitted => nsub = N))
  /\ [][/\ nsub' \in {nsub, nsub + 1}
        /\ \A i \in Idx :
             fut'[i] = "pending" /\ fut[i] # "pending" =>
               fut[i] = "unsubmitted" /\ i = nsub + 1 /\ nsub' = i]_vars

\* C22 witness: two workers, two utterances, both backend calls in progress.
C22_Witness ==
  /\ threads = 2 /\ N = 2 /\ nsub = 2
  /\ InCall = {1, 2}

\* C23: each synthesis task trims its own clip before reporting completion:
\* a task that has reported completion with a clip has had that clip
\* trimmed.
C23_TaskTrimsBeforeCompletion ==
  \A i \in Idx :
    fut[i] = "finished" /\ res[i] = "clip" =>
      i \in trimmed \/ i \in Named(manifest)

\* Number of calls of task i that have ended.
Ended(i) == Len(hist[i])

\* C24: in generate_audio_for_item the delay before retry attempt k+1,
\* after the k-th transient failure, is 2^(k-1) seconds (1 s, then 2 s),
\* and no delay is taken after the final failed attempt before the error
\* is raised.
C24_BackoffDoubles ==
  \A i \in Idx :
    /\ \A k \in 1..Len(waits[i]) :
         /\ waits[i][k] = 2 ^ (k - 1)
         /\ k <= Ended(i) /\ hist[i][k] = "transient"
    /\ (tpc[i] \in {"sleep", "incall"} => Len(waits[i]) = Ended(i))
    /\ (fut[i] = "finished" /\ Ended(i) > 0 =>
          Len(waits[i]) = Ended(i) - 1)

\* C24 witness: three transient failures under the default limit: sleeps of
\* 1 s and 2 s, none after the third failure, and the task raised.
C24_Witness ==
  \E i \in Idx :
    /\ max_retries = DefaultMaxRetries
    /\ hist[i] = <<"transient", "transient", "transient">>
    /\ waits[i] = <<1, 2>>
    /\ fut[i] = "finished" /\ res[i] = "exc"

\* The trim of clip i succeeded: its result was stored.
TrimSucceeded(i) == i \in DOMAIN audio_files_dict

\* The trim of clip i failed: the loop broke on a future that held a clip.
TrimFailed(i) == exception_caught = i /\ res[i] = "clip"

\* C27: the raw clip of an utterance is deleted only after its trimmed
\* replacement has been produced by a successful trim, never before; if the
\* trim fails the raw clip is left in place and the run fails.
C27_RawDeletedOnlyAfterTrim ==
  /\ [](\A i \in Idx :
          /\ (res[i] = "clip" /\ i \notin raw => TrimSucceeded(i))
          /\ (TrimFailed(i) =>
                /\ i \in raw
                /\ ~TrimSucceeded(i)
                /\ pc \in {"cancel", "failed"}
                /\ (pc = "failed" => error = "synthesis")
                /\ mp3 = "none"))
  /\ [][\A i \in Idx :
          i \in raw /\ i \notin raw' =>
            /\ i \in trimmed'
            /\ TrimSucceeded(i)']_vars

\* C27 witness: of two clips the first was trimmed and its raw clip
\* deleted, the trim of the second failed, its raw clip is still there and
\* the run failed.
C27_Witness ==
  /\ N = 2
  /\ TrimSucceeded(1) /\ 1 \notin raw /\ 1 \in trimmed
  /\ TrimFailed(2) /\ 2 \in raw
  /\ pc = "failed" /\ error = "synthesis"

\* C28: results are written into a collection addressed by the original
\* index: each slot is written at most once per run, with the clip of the
\* task submitted for that index, and no two writes overlap in time, for
\* any concurrency level: every write is a step of the calling thread's
\* loop, one slot per step.
C28_SlotsWrittenOnceByIndex ==
  /\ [](\A k \in DOMAIN audio_files_dict :
          /\ k \in Idx
          /\ audio_files_dict[k] = k
          /\ k \in collected
          /\ res[k] = "clip")
  /\ [][/\ \A k \in DOMAIN audio_files_dict :
             k \in DOMAIN audio_files_dict'
             /\ audio_files_dict'[k] = audio_files_dict[k]
        /\ Cardinality((DOMAIN audio_files_dict') \ DOMAIN audio_files_dict)
             <= 1
        /\ (audio_files_dict' # audio_files_dict =>
              pc = "loop" /\ collected' # collected)]_vars

\* C28 witness: with two workers the second utterance finished first and
\* its slot was written while the first slot is still empty.
C28_Witness ==
  /\ threads = 2 /\ N = 2
  /\ DOMAIN audio_files_dict = {2}
  /\ audio_files_dict[2] = 2
  /\ fut[1] = "running"

\* C29: no intermediate artifact survives a run, successful or not: after
\* a run that failed at any stage no raw clip, trimmed clip, manifest or
\* intermediate WAV remains on disk.
C29_NoArtifactSurvives ==
  pc \in {"done", "failed"} =>
    raw = {} /\ trimmed = {} /\ ~manifestOnDisk /\ ~wav

\* Control has left _generate_all_audio_files, by return or by raise.
LeftOrchestrator ==
  \/ pc \in {"filelist", "merge", "done"}
  \/ pc = "failed" /\ error \in {"synthesis", "nofiles", "count",
                                  "ffmpeg_missing", "ffmpeg_failed"}

\* C30: whenever _generate_all_audio_files returns or raises, no worker
\* task of the run is still executing, and no backend call of the run
\* happens afterwards.
C30_NoTaskOutlivesOrchestrator ==
  /\ [](LeftOrchestrator =>
          /\ Running = {}
          /\ \A i \in Idx : tpc[i] = "idle"
                            /\ fut[i] \in {"finished", "cancelled"})
  /\ [][LeftOrchestrator => hist' = hist /\ tpc' = tpc /\ fut' = fut]_vars

\* C30 witness: the run raised on the failure of utterance 1; utterance 2,
\* started before the failure was observed and never collected, had ended
\* its calls by then.
C30_Witness ==
  /\ N = 2 /\ threads = 2
  /\ exception_caught = 1
  /\ pc = "failed" /\ error = "synthesis"
  /\ hist[2] # <<>> /\ 2 \notin collected
  /\ 2 \notin pendingAtObs

\* The duration of the source clip could not be determined: the probe of
\* line 312 gave None.
DurationUnknown ==
  /\ enable_trim
  /\ tpos \notin {"entry", "probe", "detect", "duration"}
  /\ trimError # "ffmpeg_missing"
  /\ current_audio_duration = NoFloat

Structural == {"notfound", "empty", "gate"}

\* C25: in _generate_podcast_script a failed attempt is retried with no
\* delay when the failure is structural and with a fixed backoff, the same
\* delay for every attempt, when the upstream request failed: the delay
\* taken after every such failure is the one taken after the first, 1 s.
C25_NoDelayOrFixedBackoff ==
  spos = "loop" /\ lastFailure # "none" =>
    /\ lastFailure \in Structural => lastDelay = 0
    /\ lastFailure = "transport" => lastDelay = 1

\* A structural failure is retried with no delay.
StructuralRetriedAtOnce ==
  spos = "loop" /\ lastFailure \in Structural => lastDelay = 0

\* C26: when _generate_podcast_script exhausts its retries, the error it
\* raises identifies the raw content of the last response, for every kind
\* of final failure (no object found, empty transcripts array, quality
\* gate rejected).
C26_FatalErrorCarriesRawContent ==
  spos = "raised" /\ lastFailure \in Structural => errRaw

\* ------------------------------------------ probe of the trimmed clip
\* The windowed re-encode of this call succeeded and the duration of its
\* output has been asked for (354).
ReencodeDone == trimmed_duration # "unset"

\* C32: once the windowed re-encode has succeeded, trim_audio_silence
\* returns normally whether or not the duration of the trimmed clip can
\* be probed.
C32_ReturnsAfterReencode ==
  ReencodeDone => tpos = "returned" /\ trimError = "none"

\* ------------------------------------------------- progress of the scan
\* The last iteration of the scan failed to decode and no '{' follows the
\* position it tried.
NoBraceLeft ==
  /\ scanned # <<>>
  /\ ~scanned[Len(scanned)].ok
  /\ \A q \in (scanned[Len(scanned)].pos + 1)..(Len(podscript_json_str) - 1) :
       At(podscript_json_str, q) # "{"

\* The positions the scan has tried increase strictly, every decoded value
\* ends after the position it starts at, and the position to try next is
\* after the last one tried.
ScanAdvances ==
  LET n == Len(scanned)
  IN /\ \A k \in 1..n :
          /\ 0 <= scanned[k].pos /\ scanned[k].pos < Len(podscript_json_str)
          /\ (scanned[k].ok =>
                /\ scanned[k].end > scanned[k].pos
                /\ scanned[k].end <= Len(podscript_json_str))
          /\ (k < n => scanned[k + 1].pos > scanned[k].pos)
     /\ (spos = "scan" /\ n > 0 => idx > scanned[n].pos)
     /\ n <= Len(podscript_json_str)

\* C36: the extraction scan terminates: the scan position strictly
\* increases on every iteration, after a successful decode of a value
\* without the key as well as after a failed decode, until a value is
\* accepted, no '{' remains, or the end of the text is reached.
\* The scan of a text of n symbols makes at most n iterations.
C36_ScanTerminates ==
  /\ []ScanAdvances
  /\ [][spos = "scan" /\ spos' = "scan" => idx' > idx]_vars
  /\ [][spos = "scan" /\ spos' # "scan" =>
          /\ spos' = "check"
          /\ \/ podcast_script' # None
             \/ NoBraceLeft'
             \/ idx >= Len(podscript_json_str)]_vars

\* C36 witness: the scan failed on a leading letter, went on at the next
\* '{', decoded and skipped the object without the key that starts there
\* and reached the end of the text.
C36_Witness ==
  /\ noise = <<<<"x">>, <<>>>> /\ body = Irrelevant
  /\ spos = "check" /\ podcast_script = None
  /\ idx = Len(podscript_json_str)
  /\ scanned = <<[pos |-> 0, ok |-> FALSE, end |-> 0],
                 [pos |-> 1, ok |-> TRUE, end |-> 1 + Len(Irrelevant)]>>

\* ------------------------------------------------ runs with one worker
\* Some utterance before j has failed in its task.
FailedBefore(j) == \E k \in 1..(j - 1) : res[k] = "exc"

\* Backend calls are made in ascending order of index, and every attempt
\* for an utterance has ended before the first call for a later one.
OneAtATime ==
  \A k \in Idx : \A j \in Idx :
    (k < j /\ Calls(j) > 0) =>
      /\ tpc[k] = "idle"
      /\ fut[k] \in {"finished", "cancelled"}

\* C34: with concurrency 1 the run is fully sequential: the backend calls
\* are made in ascending order of index, all attempts for utterance k end
\* before the first call for utterance k+1, and after the first failed
\* utterance k no backend call is made for any index greater than k.
C34_SequentialWithOneWorker ==
  /\ [](threads = 1 => OneAtATime)
  /\ [][(threads = 1) =>
          \A j \in Idx : FailedBefore(j) => Calls(j)' = Calls(j)]_vars

\* ------------------------------------------- cleanup of merge_audio_files
\* merge_audio_files has ended and its finally block has run.
CleanupDone == mergeResult # "notrun" /\ CleanupRuns(mergeResult)

\* C37: the cleanup of merge_audio_files is best-effort per artifact: a
\* clip whose deletion failed does not keep the other clips, the file list
\* or the intermediate WAV from being deleted, and a failed deletion never
\* replaces the outcome of the merge.
C37_CleanupBestEffortPerArtifact ==
  CleanupDone =>
    /\ \A c \in Named(manifest) : c \notin rmRaised.clips => c \notin trimmed
    /\ (~rmRaised.list => ~manifestOnDisk)
    /\ (~rmRaised.wav => ~wav)
    /\ (mergeResult = "ok" =>
          pc = "done" /\ error = "none" /\ mp3 = "complete")
    /\ (mergeResult # "ok" => pc = "failed" /\ error = "ffmpeg_failed")

\* C37 witness: the merge of two clips succeeded; os.remove raised for
\* the first clip only, and the second clip, the file list and the WAV
\* were deleted.
C37_Witness ==
  /\ pc = "done" /\ mergeResult = "ok" /\ mp3 = "complete"
  /\ manifest = <<1, 2>>
  /\ rmRaised = [clips |-> {1}, list |-> FALSE, wav |-> FALSE]
  /\ trimmed = {1}
  /\ ~manifestOnDisk /\ ~wav

\* ------------------------------------ end of _generate_all_audio_files
\* range(max_retries) (684): the number of backend calls one task makes
\* at most.
AttemptLimit == IF max_retries > 0 THEN max_retries ELSE 0

\* _generate_all_audio_files is running.
InOrchestrator == pc \in {"submit", "loop", "cancel"}

\* C35: when every backend call and every trim ends,
\* _generate_all_audio_files ends for every concurrency level and pattern
\* of failures, returning N clips or raising; the backend calls of a run
\* are at most N times the attempt limit, and the calling thread does not
\* wait forever on a cancelled or failed task.
C35_OrchestratorTerminates ==
  /\ [](\A i \in Idx : Calls(i) <= AttemptLimit)
  /\ [](pc = "filelist" => Len(audio_files) = N)
  /\ (InOrchestrator ~> LeftOrchestrator)

\* --------------------------------------------- text given to the backend
\* C31: every backend call receives a non-empty text: for every dialog the
\* quality gate accepts, the text that is left after sanitization is not
\* empty.
C31_BackendTextNonEmpty ==
  dpos = "call" => sent_text # <<>>

\* ------------------------------------------- adapter of each roster entry
\* C33: in the API entry points, once _initialize_tts_adapter has
\* succeeded, every roster entry selects a registered adapter, also in a
\* roster that mixes entries without owner and entries with one: the
\* selection of the adapter cannot fail in a task.
C33_EveryEntrySelectsAdapter ==
  apos = "done" => \A k \in 1..Len(selected) : selected[k]

====
